---- MODULE Spec2Model ----
(***************************************************************************)
(* A model of cmdgo (ClickerMonkey/cmdgo): argument matching (GetArg),     *)
(* choice tables (PromptChoices), the prompt engine (Options.Prompt), the  *)
(* capture pipeline (Instance.Capture) and its entry point                 *)
(* (Registry.Capture).                                                     *)
(*                                                                         *)
(* Go strings are modelled as sequences of one-character strings, so that  *)
(* Normalize, ToLower, HasPrefix and the parsers are computed character by *)
(* character as the code computes them.                                    *)
(***************************************************************************)
EXTENDS Integers, Sequences, FiniteSets, TLC

VARIABLES
    ga,         \* GetArg harness: one call, its inputs and its outputs
    cv,         \* PromptChoices harness: one table, one Convert call
    cap         \* Registry.Capture / Instance.Capture: the capture in progress

vars == <<ga, cv, cap>>

----------------------------------------------------------------------------
(* Characters and strings                                                  *)

UpperChars == <<"A","B","C","D","E","F","G","H","I","J","K","L","M",
                "N","O","P","Q","R","S","T","U","V","W","X","Y","Z">>

LowerChars == <<"a","b","c","d","e","f","g","h","i","j","k","l","m",
                "n","o","p","q","r","s","t","u","v","w","x","y","z">>

DigitChars == <<"0","1","2","3","4","5","6","7","8","9">>

Range(s) == {s[i] : i \in DOMAIN s}

\* strings.ToLower on one (ASCII) character
ToLowerCh(c) ==
    IF \E i \in DOMAIN UpperChars : UpperChars[i] = c
    THEN LowerChars[CHOOSE i \in DOMAIN UpperChars : UpperChars[i] = c]
    ELSE c

\* the characters the regular expression [^a-zA-Z0-9] does not match
IsAlnum(c) == c \in (Range(UpperChars) \cup Range(LowerChars) \cup Range(DigitChars))

ToLower(s) == [i \in DOMAIN s |-> ToLowerCh(s[i])]

HasPrefix(s, p) == Len(p) <= Len(s) /\ SubSeq(s, 1, Len(p)) = p

EqualFold(a, b) == ToLower(a) = ToLower(b)

\* Normalize removes every character that is no letter or digit and lowercases the rest
Normalize(x) == ToLower(SelectSeq(x, IsAlnum))

\* s[n:] of Go
Drop(s, n) == SubSeq(s, n + 1, Len(s))

\* all sequences over S of length at most n
SeqsUpTo(S, n) == UNION {[1..k -> S] : k \in 0..n}


\* the texts the model uses: argument tokens, names, prefixes
tAge      == <<"-","-","a","g","e">>
tAgeCaps  == <<"-","-","A","-","g","e">>
tX        == <<"-","-","x">>
tFive     == <<"5">>
tFalse    == <<"f","a","l","s","e">>
tTrue     == <<"t","r","u","e">>
sEmpty    == <<>>
sAge      == <<"a","g","e">>
sX        == <<"x">>
pDashes   == <<"-","-">>
pDash     == <<"-">>

----------------------------------------------------------------------------
(* GetArg (Argument Matching)                                              *)

\* whether the token at args[i] names the normalized key `normal` under argPrefix
ArgMatches(arg, normal, argPrefix) ==
    /\ HasPrefix(ToLower(arg), ToLower(argPrefix))
    /\ Normalize(Drop(arg, Len(argPrefix))) = normal

\* the index GetArg's loop stops at: the first matching token, or len(args)+1
RECURSIVE ArgIndex(_, _, _, _)
ArgIndex(args, normal, argPrefix, index) ==
    IF index > Len(args) THEN index
    ELSE IF ArgMatches(args[index], normal, argPrefix) THEN index
    ELSE ArgIndex(args, normal, argPrefix, index + 1)

\* a mutant of GetArgValue: a flag without a value keeps the default
GetArgValueNoFlagTrue(defaultValue, args, argPrefix, flag, index) ==
    IF index + 1 <= Len(args)
          /\ ~HasPrefix(ToLower(args[index + 1]), ToLower(argPrefix))
    THEN args[index + 1]
    ELSE defaultValue

\* the value GetArg returns for a match at index (1-based)
GetArgValue(defaultValue, args, argPrefix, flag, index) ==
    LET found == IF index + 1 <= Len(args)
                       /\ ~HasPrefix(ToLower(args[index + 1]), ToLower(argPrefix))
                 THEN args[index + 1]
                 ELSE defaultValue
    IN  IF flag /\ found = defaultValue THEN <<"t","r","u","e">> ELSE found

\* how many tokens GetArg erases for a match at index (1-based)
GetArgErase(args, argPrefix, index) ==
    IF index + 1 <= Len(args)
          /\ ~HasPrefix(ToLower(args[index + 1]), ToLower(argPrefix))
    THEN 2
    ELSE 1

\* GetArg: the value and the token list it leaves behind
GetArg(name, defaultValue, args, argPrefix, flag) ==
    LET normal == Normalize(name)
        index  == ArgIndex(args, normal, argPrefix, 1)
    IN  IF index > Len(args)
        THEN [value |-> defaultValue, args |-> args]
        ELSE [value |-> GetArgValue(defaultValue, args, argPrefix, flag, index),
              args  |-> SubSeq(args, 1, index - 1)
                            \o Drop(args, index - 1 + GetArgErase(args, argPrefix, index))]

----------------------------------------------------------------------------
(* PromptChoices (Choice Table): a map from normalized input to a choice   *)

ErrNone == "nil"
ErrInvalidConversion == "invalid conversion"

\* PromptChoices{}: the empty map
NoChoices == [k \in {} |-> [Text |-> <<>>, Value |-> <<>>]]

\* pc[Normalize(input)] = PromptChoice{Text: input, Value: value}
Add(pc, input, value) ==
    [k \in (DOMAIN pc) \cup {Normalize(input)} |->
        IF k = Normalize(input) THEN [Text |-> input, Value |-> value] ELSE pc[k]]

HasChoices(pc) == DOMAIN pc # {}

\* the values of the options whose (lowercased) key starts with key
Possible(pc, key) == {k \in DOMAIN pc : HasPrefix(ToLower(k), key)}

\* a mutant of Convert: only an exact key converts, no prefix search
ConvertExactOnly(pc, input) ==
    LET key == Normalize(input)
    IN  IF ~HasChoices(pc) THEN [value |-> input, err |-> ErrNone]
        ELSE IF key \in DOMAIN pc THEN [value |-> pc[key].Value, err |-> ErrNone]
        ELSE [value |-> <<>>, err |-> ErrInvalidConversion]

\* a mutant of Convert: the first of several prefix matches is taken
ConvertFirstOfMany(pc, input) ==
    LET key == Normalize(input)
    IN  IF ~HasChoices(pc) THEN [value |-> input, err |-> ErrNone]
        ELSE IF key \in DOMAIN pc THEN [value |-> pc[key].Value, err |-> ErrNone]
        ELSE IF Len(key) > 0 /\ Possible(pc, key) # {}
             THEN [value |-> pc[CHOOSE k \in Possible(pc, key) : TRUE].Value,
                   err |-> ErrNone]
        ELSE [value |-> <<>>, err |-> ErrInvalidConversion]

\* Convert: the translated value, or ErrInvalidConversion
Convert(pc, input) ==
    LET key == Normalize(input)
    IN  IF ~HasChoices(pc) THEN [value |-> input, err |-> ErrNone]
        ELSE IF key \in DOMAIN pc THEN [value |-> pc[key].Value, err |-> ErrNone]
        ELSE IF Len(key) > 0 /\ Cardinality(Possible(pc, key)) = 1
             THEN [value |-> pc[CHOOSE k \in Possible(pc, key) : TRUE].Value,
                   err |-> ErrNone]
        ELSE [value |-> <<>>, err |-> ErrInvalidConversion]

----------------------------------------------------------------------------
(* Parsing and setting scalar values (ParseType, SetString)                *)

\* A Go type is [ptr, kind]: kind is "string", "int", "bool" or "chan"; ptr marks *T.
\* A value is [nil, s, n, b]: nil for a nil pointer, and the string, integer or
\* boolean it holds (the components its kind does not use stay zero).

TString == [ptr |-> FALSE, kind |-> "string"]
TInt    == [ptr |-> FALSE, kind |-> "int"]
TIntPtr == [ptr |-> TRUE,  kind |-> "int"]
TBool   == [ptr |-> FALSE, kind |-> "bool"]
TChan   == [ptr |-> FALSE, kind |-> "chan"]

\* the container types: a slice and an array of scalars, a map from scalars to
\* scalars, a struct of scalar fields (a sequence of field declarations)
TSlice(elem)      == [ptr |-> FALSE, kind |-> "slice", elem |-> elem]
TArray(len, elem) == [ptr |-> FALSE, kind |-> "array", elem |-> elem, len |-> len]
TMap(key, elem)   == [ptr |-> FALSE, kind |-> "map", key |-> key, elem |-> elem]
TStruct(fields)   == [ptr |-> FALSE, kind |-> "struct", fields |-> fields]
TStructPtr(fields) == [ptr |-> TRUE, kind |-> "struct", fields |-> fields]

\* named string types whose pointer implements ArgValue or PromptCustom
TArgValueSimple    == [ptr |-> FALSE, kind |-> "string", impl |-> "ArgValue"]
TPromptValueSimple == [ptr |-> FALSE, kind |-> "string", impl |-> "PromptCustom"]

\* the type assertion candidate.Interface().(iface)
Implements(t, iface) == "impl" \in DOMAIN t /\ t.impl = iface

Elem(t) == [t EXCEPT !.ptr = FALSE]

\* the zero value of a scalar type
ZeroScalar(t) == [nil |-> t.ptr, s |-> <<>>, n |-> 0, b |-> FALSE]

\* the zero value of a type: a nil slice, map or pointer; an array and a struct
\* of zero elements
ZeroValue(t) ==
    CASE t.kind = "slice"  -> [nil |-> TRUE, items |-> <<>>]
      [] t.kind = "map"    -> [nil |-> TRUE, keys |-> <<>>, vals |-> <<>>]
      [] t.kind = "array"  -> [nil |-> t.ptr, items |-> [j \in 1..t.len |-> ZeroScalar(t.elem)]]
      [] t.kind = "struct" -> [nil |-> t.ptr,
                               f |-> [j \in DOMAIN t.fields |-> ZeroScalar(t.fields[j].Type)]]
      [] OTHER             -> ZeroScalar(t)

StrValue(x)  == [nil |-> FALSE, s |-> x, n |-> 0, b |-> FALSE]
IntValue(x)  == [nil |-> FALSE, s |-> <<>>, n |-> x, b |-> FALSE]
BoolValue(x) == [nil |-> FALSE, s |-> <<>>, n |-> 0, b |-> x]

\* reflect.Value.IsZero
isDefaultValue(t, v) == v = ZeroValue(t)

DigitVal(c) == CHOOSE d \in 0..9 : DigitChars[d + 1] = c

RECURSIVE DigitsVal(_)
DigitsVal(s) ==
    IF s = <<>> THEN 0
    ELSE DigitsVal(SubSeq(s, 1, Len(s) - 1)) * 10 + DigitVal(s[Len(s)])

\* strconv.ParseInt(s, 10, 64): an optional sign and at least one decimal digit
\* (the strings of the model are far below 64 bits)
ParseInt(s) ==
    LET signed == s # <<>> /\ s[1] \in {"+", "-"}
        body   == IF signed THEN Tail(s) ELSE s
    IN  IF body = <<>> \/ \E i \in DOMAIN body : body[i] \notin Range(DigitChars)
        THEN [ok |-> FALSE, n |-> 0]
        ELSE [ok |-> TRUE,
              n  |-> IF signed /\ s[1] = "-" THEN 0 - DigitsVal(body) ELSE DigitsVal(body)]

\* strconv.ParseBool
ParseBool(s) ==
    IF s \in {<<"1">>, <<"t">>, <<"T">>, <<"T","R","U","E">>, <<"t","r","u","e">>,
              <<"T","r","u","e">>}
    THEN [ok |-> TRUE, b |-> TRUE]
    ELSE IF s \in {<<"0">>, <<"f">>, <<"F">>, <<"F","A","L","S","E">>,
                   <<"f","a","l","s","e">>, <<"F","a","l","s","e">>}
    THEN [ok |-> TRUE, b |-> FALSE]
    ELSE [ok |-> FALSE, b |-> FALSE]

ErrParse       == "invalid syntax"
ErrUnsupported == "unsupported type"

\* ParseType for a non-pointer type
ParseType(t, s) ==
    CASE t.kind = "string" -> [err |-> ErrNone, val |-> StrValue(s)]
      [] t.kind = "int"    -> LET r == ParseInt(s)
                              IN  IF r.ok THEN [err |-> ErrNone, val |-> IntValue(r.n)]
                                  ELSE [err |-> ErrParse, val |-> ZeroValue(t)]
      [] t.kind = "bool"   -> LET r == ParseBool(s)
                              IN  IF r.ok THEN [err |-> ErrNone, val |-> BoolValue(r.b)]
                                  ELSE [err |-> ErrParse, val |-> ZeroValue(t)]
      [] OTHER             -> [err |-> ErrUnsupported, val |-> ZeroValue(t)]

\* SetString: through a pointer the pointee is parsed and, on success, a nil
\* pointer is made to point at it; on an error the value is left as it was
SetString(t, cur, s) ==
    LET r == ParseType(Elem(t), s)
    IN  IF r.err # ErrNone THEN [err |-> r.err, val |-> cur] ELSE r

----------------------------------------------------------------------------
(* Property descriptors (getStructProperty)                                *)

\* A field is [Name, Type, tags]; tags maps the names of the struct tags the
\* field declares to their text.
HasTag(f, tag) == tag \in DOMAIN f.tags
Tag(f, tag)    == IF HasTag(f, tag) THEN f.tags[tag] ELSE <<>>

\* strings.Split(s, sep) for a one-character separator
RECURSIVE Split(_, _)
Split(s, sep) ==
    IF \A i \in DOMAIN s : s[i] # sep THEN <<s>>
    ELSE LET i == CHOOSE k \in DOMAIN s : s[k] = sep /\ \A j \in 1..(k - 1) : s[j] # sep
         IN  <<SubSeq(s, 1, i - 1)>> \o Split(Drop(s, i), sep)

\* pc.FromTag(tag, ",", ":"): Add(key, value) for every key or key:value option
RECURSIVE FromTagOptions(_, _)
FromTagOptions(pc, options) ==
    IF options = <<>> THEN pc
    ELSE LET keyValue == Split(Head(options), ":")
             key      == keyValue[1]
             value    == IF Len(keyValue) > 1 THEN keyValue[2] ELSE key
         IN  FromTagOptions(Add(pc, key, value), Tail(options))

FromTag(pc, tag) == FromTagOptions(pc, Split(tag, ","))

\* strconv.ParseFloat for min and max, restricted to the integer literals the
\* declarations of the model use; NoBound is a nil *float64
NoBound == [set |-> FALSE, v |-> 0]

ParseBound(f, tag) ==
    IF ~HasTag(f, tag) THEN [panic |-> FALSE, bound |-> NoBound]
    ELSE LET r == ParseInt(f.tags[tag])
         IN  IF r.ok THEN [panic |-> FALSE, bound |-> [set |-> TRUE, v |-> r.n]]
             ELSE [panic |-> TRUE, bound |-> NoBound]

sDash    == <<"-">>
kVerify  == <<"v","e","r","i","f","y">>
kEmpty   == <<"e","m","p","t","y">>
kMulti   == <<"m","u","l","t","i">>
kTries   == <<"t","r","i","e","s">>
kStart   == <<"s","t","a","r","t">>
kMore    == <<"m","o","r","e">>
kReprompt == <<"r","e","p","r","o","m","p","t">>

\* the keys of the prompt-options tag, lowercased
PromptOptionKeys(f) ==
    {ToLower(Split(opt, ":")[1]) : opt \in Range(Split(Tag(f, "prompt-options"), ","))}

\* the value of prompt-options key `key` ("" when the key carries none)
PromptOptionValue(f, key) ==
    LET opts == {opt \in Range(Split(Tag(f, "prompt-options"), ",")) :
                    ToLower(Split(opt, ":")[1]) = key}
        opt  == CHOOSE o \in opts : TRUE
    IN  IF opts = {} \/ Len(Split(opt, ":")) < 2 THEN <<>> ELSE Split(opt, ":")[2]

\* getStructProperty: the descriptor of a field, from its name, type and tags
getStructProperty(f) ==
    [Name        |-> f.Name,
     Type        |-> f.Type,
     PromptText  |-> IF HasTag(f, "prompt") THEN f.tags["prompt"] ELSE f.Name,
     HidePrompt  |-> HasTag(f, "prompt") /\ f.tags["prompt"] = sDash,
     PromptMulti |-> HasTag(f, "prompt-options") /\ kMulti \in PromptOptionKeys(f),
     PromptVerify |-> HasTag(f, "prompt-options") /\ kVerify \in PromptOptionKeys(f),
     PromptEmpty |-> HasTag(f, "prompt-options") /\ kEmpty \in PromptOptionKeys(f),
     PromptTries |-> IF HasTag(f, "prompt-options") /\ kTries \in PromptOptionKeys(f)
                     THEN ParseInt(PromptOptionValue(f, kTries)).n ELSE 0,
     Reprompt    |-> HasTag(f, "prompt-options") /\ kReprompt \in PromptOptionKeys(f),
     PromptStart |-> IF HasTag(f, "prompt-options") /\ kStart \in PromptOptionKeys(f)
                     THEN PromptOptionValue(f, kStart)
                     ELSE (IF HasTag(f, "prompt") THEN f.tags["prompt"] ELSE f.Name)
                          \o <<"?">>,
     PromptMore  |-> IF HasTag(f, "prompt-options") /\ kMore \in PromptOptionKeys(f)
                     THEN PromptOptionValue(f, kMore)
                     ELSE <<"M","o","r","e"," ">>
                          \o (IF HasTag(f, "prompt") THEN f.tags["prompt"] ELSE f.Name)
                          \o <<"?">>,
     Help        |-> Tag(f, "help"),
     Default     |-> Tag(f, "default"),
     Regex       |-> Tag(f, "regex"),
     Env         |-> IF Tag(f, "env") # <<>> THEN Split(Tag(f, "env"), ",") ELSE <<>>,
     Arg         |-> IF HasTag(f, "arg") THEN Normalize(f.tags["arg"]) ELSE f.Name,
     Min         |-> ParseBound(f, "min").bound,
     Max         |-> ParseBound(f, "max").bound,
     Choices     |-> IF Tag(f, "options") # <<>> THEN FromTag(NoChoices, f.tags["options"])
                     ELSE NoChoices,
     panic       |-> \/ ParseBound(f, "min").panic
                     \/ ParseBound(f, "max").panic
                     \/ /\ HasTag(f, "prompt-options")
                        /\ kTries \in PromptOptionKeys(f)
                        /\ ~ParseInt(PromptOptionValue(f, kTries)).ok]

\* concreteKind(prop.Value) is none of array, slice, map, struct, chan, func,
\* interface, unsafe pointer
IsSimple(prop) == prop.Type.kind \in {"string", "int", "bool"}

IsStruct(prop) == prop.Type.kind = "struct"
IsSlice(prop)  == prop.Type.kind = "slice"
IsArray(prop)  == prop.Type.kind = "array"
IsMap(prop)    == prop.Type.kind = "map"

IsContainer(prop) == IsStruct(prop) \/ IsSlice(prop) \/ IsArray(prop) \/ IsMap(prop)

\* concreteKind(prop.Value) is chan, func or unsafe pointer
IsIgnored(prop) == prop.Type.kind = "chan"

IsOptional(prop) == prop.Type.ptr

IsBool(prop) == prop.Type.kind = "bool"

----------------------------------------------------------------------------
(* Property.Load, Property.FromArgs, Property.Validate, Property.Set       *)

\* errors are [kind, prop]: the error's text or kind and the property it names
NoError == [kind |-> ErrNone, prop |-> <<>>]
Error(kind) == [kind |-> kind, prop |-> <<>>]
ErrorOf(kind, prop) == [kind |-> kind, prop |-> prop.Name]

ErrQuit         == "QUIT"
ErrDiscard      == "DISCARD"
ErrNoPrompt     == "NOPROMPT"
ErrVerifyFailed == "NOVERIFY"
ErrRegexFailed  == "NOREGEX"
ErrMin          == "has a min of"
ErrMax          == "has a max of"
ErrOption       == "has an invalid option value"
ErrPanic        == "panic"

FlagArgs    == "PropertyFlagArgs"
FlagPrompt  == "PropertyFlagPrompt"
FlagEnv     == "PropertyFlagEnv"
FlagDefault == "PropertyFlagDefault"
FlagNone    == "PropertyFlagNone"

AddFlag(flags, flag) == IF flag = FlagNone THEN flags ELSE flags \cup {flag}

\* os.Getenv
Getenv(env, name) == IF name \in DOMAIN env THEN env[name] ELSE <<>>

\* the first non-empty environment value among names, or ""
RECURSIVE FirstEnv(_, _)
FirstEnv(env, names) ==
    IF names = <<>> THEN <<>>
    ELSE IF Getenv(env, Head(names)) # <<>> THEN Getenv(env, Head(names))
    ELSE FirstEnv(env, Tail(names))

\* a mutant of PropSet: the choice table is not consulted
PropSetNoChoices(prop, value, flags, input, addFlags) ==
    LET r == SetString(prop.Type, value, input)
    IN  [err   |-> r.err,
         value |-> r.val,
         flags |-> IF r.err = ErrNone THEN AddFlag(flags, addFlags) ELSE flags]

\* Property.Set: convert through the choices, then SetString; the flag is added on success
PropSet(prop, value, flags, input, addFlags) ==
    LET c == IF HasChoices(prop.Choices) THEN Convert(prop.Choices, input)
             ELSE [value |-> input, err |-> ErrNone]
        r == SetString(prop.Type, value, c.value)
    IN  IF c.err # ErrNone THEN [err |-> c.err, value |-> value, flags |-> flags]
        ELSE [err   |-> r.err,
              value |-> r.val,
              flags |-> IF r.err = ErrNone THEN AddFlag(flags, addFlags) ELSE flags]

\* a mutant of CanLoad: a property that already holds a value is loaded too
CanLoadAlways(prop, value) ==
    ~IsIgnored(prop) /\ IsSimple(prop)

CanLoad(prop, value) ==
    ~IsIgnored(prop) /\ IsSimple(prop) /\ isDefaultValue(prop.Type, value)

\* a mutant of Load: the default tag is used even when an environment variable is set
LoadDefaultFirst(prop, value, flags, env) ==
    IF ~CanLoad(prop, value) THEN [err |-> ErrNone, value |-> value, flags |-> flags]
    ELSE LET envValue == FirstEnv(env, prop.Env)
             text     == IF prop.Default # <<>> THEN prop.Default ELSE envValue
             flag     == IF prop.Default # <<>> THEN FlagDefault
                         ELSE IF envValue # <<>> THEN FlagEnv ELSE FlagNone
         IN  IF text # <<>> THEN PropSet(prop, value, flags, text, flag)
             ELSE [err |-> ErrNone, value |-> value, flags |-> flags]

\* Property.Load: the first non-empty environment variable, else the default tag
Load(prop, value, flags, env) ==
    IF ~CanLoad(prop, value) THEN [err |-> ErrNone, value |-> value, flags |-> flags]
    ELSE LET envValue == FirstEnv(env, prop.Env)
             text     == IF envValue # <<>> THEN envValue ELSE prop.Default
             flag     == IF envValue # <<>> THEN FlagEnv
                         ELSE IF prop.Default # <<>> THEN FlagDefault ELSE FlagNone
         IN  IF text # <<>> THEN PropSet(prop, value, flags, text, flag)
             ELSE [err |-> ErrNone, value |-> value, flags |-> flags]

CanFromArgs(prop) == prop.Arg # sDash /\ ~IsIgnored(prop)

\* a mutant of fromArgsSimple: an argument does not replace a loaded value
fromArgsSimpleKeepLoaded(prop, value, flags, args, argPrefix) ==
    LET r == GetArg(prop.Arg, <<>>, args, argPrefix, IsBool(prop))
        set == PropSet(prop, value, flags, r.value, FlagArgs)
    IN  IF r.value # <<>> /\ isDefaultValue(prop.Type, value)
        THEN [err |-> set.err, value |-> set.value, flags |-> set.flags, args |-> r.args]
        ELSE [err |-> ErrNone, value |-> value, flags |-> flags, args |-> r.args]

\* a mutant of fromArgsSimple: an argument that does not convert is passed over
fromArgsSimpleSkipsInvalid(prop, value, flags, args, argPrefix) ==
    LET r == GetArg(prop.Arg, <<>>, args, argPrefix, IsBool(prop))
        set == PropSet(prop, value, flags, r.value, FlagArgs)
    IN  IF r.value # <<>> /\ set.err = ErrNone
        THEN [err |-> set.err, value |-> set.value, flags |-> set.flags, args |-> r.args]
        ELSE [err |-> ErrNone, value |-> value, flags |-> flags, args |-> r.args]

\* Property.fromArgsSimple
fromArgsSimple(prop, value, flags, args, argPrefix) ==
    LET r == GetArg(prop.Arg, <<>>, args, argPrefix, IsBool(prop))
        set == PropSet(prop, value, flags, r.value, FlagArgs)
    IN  IF r.value # <<>>
        THEN [err |-> set.err, value |-> set.value, flags |-> set.flags, args |-> r.args]
        ELSE [err |-> ErrNone, value |-> value, flags |-> flags, args |-> r.args]

\* getArgValue, getPromptValue: the value implements ArgValue, PromptCustom
HasArgValue(prop)    == Implements(prop.Type, "ArgValue")
HasPromptValue(prop) == Implements(prop.Type, "PromptCustom")

\* ArgValueSimple.FromArgs: getArg("-"+prop.Arg, ""), the text is kept twice
ArgValueFromArgs(prop, value, flags, args) ==
    LET r == GetArg(<<>>, <<>>, args, pDash \o prop.Arg, IsBool(prop))
    IN  IF r.value # <<>>
        THEN [err |-> ErrNone, value |-> StrValue(r.value \o r.value),
              flags |-> flags \cup {FlagArgs}, args |-> r.args]
        ELSE [err |-> ErrNone, value |-> value, flags |-> flags, args |-> r.args]

\* Property.FromArgs, for an ArgValue and for the scalar kinds
FromArgs(prop, value, flags, args, argPrefix) ==
    IF CanFromArgs(prop) /\ HasArgValue(prop)
    THEN ArgValueFromArgs(prop, value, flags, args)
    ELSE IF CanFromArgs(prop) /\ IsSimple(prop)
    THEN fromArgsSimple(prop, value, flags, args, argPrefix)
    ELSE [err |-> ErrNone, value |-> value, flags |-> flags, args |-> args]

\* Property.Size: a string's length, a number's value; a chan's length (0, it
\* is nil); Len panics on a pointer
Size(prop, value) ==
    CASE prop.Type.kind = "string" -> Len(value.s)
      [] prop.Type.kind = "int"    -> value.n
      [] OTHER                     -> 0

SizePanics(prop) == prop.Type.ptr /\ prop.Type.kind \in {"string", "chan"}

\* isTextuallyEqual: the text parses to the type and prints like the value
\* (through a pointer type the parsed value prints as an address: never equal)
isTextuallyEqual(prop, value, text) ==
    /\ ~prop.Type.ptr
    /\ ParseType(prop.Type, text).err = ErrNone
    /\ ParseType(prop.Type, text).val = value

\* the checks of Property.Validate behind its first test
ValidateChecks(prop, value) ==
    IF (prop.Min.set \/ prop.Max.set) /\ SizePanics(prop)
    THEN ErrorOf(ErrPanic, prop)
    ELSE IF prop.Min.set /\ Size(prop, value) < prop.Min.v THEN ErrorOf(ErrMin, prop)
    ELSE IF prop.Max.set /\ Size(prop, value) > prop.Max.v THEN ErrorOf(ErrMax, prop)
    ELSE IF HasChoices(prop.Choices)
            /\ ~\E k \in DOMAIN prop.Choices :
                    isTextuallyEqual(prop, value, prop.Choices[k].Value)
         THEN ErrorOf(ErrOption, prop)
    ELSE NoError

\* Property.Validate: `if !prop.IsIgnored() { return nil }`, then the checks
Validate(prop, value) ==
    IF ~IsIgnored(prop) THEN NoError ELSE ValidateChecks(prop, value)

----------------------------------------------------------------------------
(* Options: prompting                                                      *)

RepromptOnInvalid == 5

QuitPrompt    == <<"q","u","i","t","!">>
DiscardPrompt == <<"d","i","s","c","a","r","d","!">>
HelpPrompt    == <<"h","e","l","p","!">>

reDigits == <<"^","[","0","-","9","]","+","$">>

\* regexp.MatchString, for the one pattern the declarations of the model use
RegexMatch(regex, input) ==
    IF regex = reDigits
    THEN input # <<>> /\ \A i \in DOMAIN input : input[i] \in Range(DigitChars)
    ELSE TRUE

\* Options.CanPrompt
OptsCanPrompt(c) == c.ForcePrompt \/ (c.in /\ ~c.DisablePrompt)

\* strings.TrimRight(s, "\n")
RECURSIVE TrimRightNL(_)
TrimRightNL(s) ==
    IF s # <<>> /\ s[Len(s)] = "\n" THEN TrimRightNL(SubSeq(s, 1, Len(s) - 1)) ELSE s

\* the default Options.PromptOnce on the text read (one line, or with Multi the
\* lines up to the empty line that stops them): the input and Quit, Discard or nil
PromptOnce(raw) ==
    LET input == TrimRightNL(raw)
    IN  [input |-> input,
         err   |-> IF QuitPrompt # <<>> /\ EqualFold(input, QuitPrompt) THEN ErrQuit
                   ELSE IF DiscardPrompt # <<>> /\ EqualFold(input, DiscardPrompt)
                        THEN ErrDiscard
                   ELSE ErrNone]

\* the state of one Options.Prompt call: the try i, what the next read is for
\* (the value, the value after help, the verification), the PromptStatus counters
PrIdle == [i |-> 0, wait |-> "none", input |-> <<>>, value |-> ZeroValue(TString),
           tries |-> 0, optional |-> FALSE, InvalidFormat |-> 0, InvalidChoice |-> 0,
           InvalidVerify |-> 0, lastError |-> ErrNoPrompt]

----------------------------------------------------------------------------
(* Instance.Capture as a state machine: one step per call it makes, and    *)
(* one per line read by the prompt                                         *)

Prop(c)  == c.props[c.i]
Value(c) == c.values[c.i]
Flags(c) == c.flags[c.i]

Log(c, what) == Append(c.trace, <<what, c.i>>)

\* a mutant of Return: an error puts the values back as they were before Capture
ReturnRollsBack(c, err) ==
    [c EXCEPT !.phase = "returned", !.err = err, !.pr = PrIdle,
              !.values = IF err # NoError THEN c.values0 ELSE @]

\* Capture returns err
Return(c, err) == [c EXCEPT !.phase = "returned", !.err = err, !.pr = PrIdle]

\* the loop of Capture moves to the next property, or leaves the loop
NextProperty(c) ==
    IF c.i + 1 > Len(c.props)
    THEN [c EXCEPT !.phase = "finish", !.i = Len(c.props) + 1]
    ELSE [c EXCEPT !.phase = "load", !.i = c.i + 1]

\* a mutant of AfterStage: Validate runs before Prompt
AfterStageValidateFirst(stage) ==
    CASE stage = "load"     -> "args"
      [] stage = "args"     -> "validate"
      [] stage = "validate" -> "prompt"
      [] stage = "prompt"   -> "update"

\* the order of the calls Capture makes for one property
AfterStage(stage) ==
    CASE stage = "load"     -> "args"
      [] stage = "args"     -> "prompt"
      [] stage = "prompt"   -> "validate"
      [] stage = "validate" -> "update"

\* a step of a property ended with err and the property's new state
StageDone(c, stage, err, value, flags, args) ==
    LET d == [c EXCEPT !.values[c.i] = value, !.flags[c.i] = flags, !.args = args,
                       !.trace = Log(c, stage), !.pr = PrIdle]
    IN  IF err # NoError THEN Return(d, err)
        ELSE [d EXCEPT !.phase = AfterStage(stage)]

\* GetInstance: the property list of the record (a malformed min, max or tries panics)
GetInstance ==
    /\ cap.phase = "new"
    /\ LET props == [k \in DOMAIN cap.fields |-> getStructProperty(cap.fields[k])]
       IN  cap' = [cap EXCEPT !.props = props,
                              !.phase = IF \E k \in DOMAIN props : props[k].panic
                                        THEN "panic" ELSE "begin"]
    /\ UNCHANGED <<ga, cv>>

\* Capture starts: dynamic.Update(opts, nil, inst) when the record is Dynamic
CaptureBegin ==
    /\ cap.phase = "begin"
    /\ IF "Dynamic" \in cap.caps
       THEN \E ok \in BOOLEAN :
               LET d == [cap EXCEPT !.i = 0, !.trace = Append(cap.trace, <<"update", 0>>)]
               IN  cap' = IF ok THEN NextProperty(d) ELSE Return(d, Error("Update"))
       ELSE cap' = NextProperty([cap EXCEPT !.i = 0])
    /\ UNCHANGED <<ga, cv>>

\* property.Load
StepLoad ==
    /\ cap.phase = "load"
    /\ LET r == Load(Prop(cap), Value(cap), Flags(cap), cap.env)
       IN  cap' = StageDone(cap, "load", Error(r.err), r.value, r.flags, cap.args)
    /\ UNCHANGED <<ga, cv>>

\* property.FromArgs
StepFromArgs ==
    /\ cap.phase = "args"
    /\ ~(CanFromArgs(Prop(cap)) /\ IsContainer(Prop(cap)))
    /\ ~(CanFromArgs(Prop(cap)) /\ HasPromptValue(Prop(cap)))
    /\ LET r == FromArgs(Prop(cap), Value(cap), Flags(cap), cap.args, cap.argPrefix)
       IN  cap' = StageDone(cap, "args", Error(r.err), r.value, r.flags, r.args)
    /\ UNCHANGED <<ga, cv>>

\* property.FromArgs of a PromptCustom value: promptValue.Prompt(opts, prop)
\* is called; PromptValueSimple.Prompt reads one line with PromptOnce (a nil
\* reader when no input file was given), drops its error and keeps the text twice
StepFromArgsPromptCustom ==
    /\ cap.phase = "args"
    /\ CanFromArgs(Prop(cap)) /\ ~HasArgValue(Prop(cap)) /\ HasPromptValue(Prop(cap))
    /\ LET c == [cap EXCEPT !.hist.custom = TRUE]
       IN  IF ~cap.in
           THEN cap' = [c EXCEPT !.phase = "panic"]
           ELSE \E raw \in cap.answers :
                   LET v == PromptOnce(raw).input
                   IN  cap' = StageDone(c, "args", NoError,
                                        IF v # <<>> THEN StrValue(v \o v) ELSE Value(c),
                                        IF v # <<>> THEN Flags(c) \cup {FlagPrompt}
                                        ELSE Flags(c),
                                        c.args)
    /\ UNCHANGED <<ga, cv>>

\* getPromptTemplate: IsDefault, the value is zero and was not set by the default tag
TemplateIsDefault(c) ==
    isDefaultValue(Prop(c).Type, Value(c)) /\ FlagDefault \notin Flags(c)

\* promptSimple does not prompt a prompt-options:"empty" property that has a value
PromptEmptySkips(c) ==
    /\ Prop(c).PromptEmpty
    /\ \/ FlagDefault \notin Flags(c) /\ ~TemplateIsDefault(c)
       \/ Flags(c) \cap {FlagArgs, FlagEnv, FlagPrompt} # {}

\* whether Property.Prompt reaches opts.Prompt
WillPrompt(c) ==
    /\ ~Prop(c).HidePrompt /\ ~IsIgnored(Prop(c))
    /\ ~HasPromptValue(Prop(c))
    /\ OptsCanPrompt(c)
    /\ IsSimple(Prop(c))
    /\ ~PromptEmptySkips(c)

\* property.Prompt: returns at once, or enters the loop of Options.Prompt
StepPrompt ==
    /\ cap.phase = "prompt"
    /\ cap.pr.wait = "none"
    /\ IF WillPrompt(cap)
       THEN cap' = [cap EXCEPT
                !.trace = Log(cap, "prompt"),
                !.prompted = cap.prompted \cup {cap.i},
                !.pr = [PrIdle EXCEPT
                          !.wait = "value",
                          !.tries = IF Prop(cap).PromptTries > 0
                                    THEN Prop(cap).PromptTries ELSE RepromptOnInvalid,
                          !.optional = IsOptional(Prop(cap)) \/ ~TemplateIsDefault(cap)]]
       ELSE cap' = StageDone(cap, "prompt", NoError, Value(cap), Flags(cap), cap.args)
    /\ UNCHANGED <<ga, cv>>

\* a mutant of PromptContinue: one more try than the loop of Options.Prompt makes
PromptContinueOneMore(c, pr) ==
    IF pr.i > pr.tries
    THEN Return(c, Error(pr.lastError))
    ELSE [c EXCEPT !.pr = [pr EXCEPT !.i = pr.i + 1, !.wait = "value"]]

\* `continue` in Options.Prompt: the next try, or the last error when none is left
PromptContinue(c, pr) ==
    IF pr.i + 1 > pr.tries
    THEN Return(c, Error(pr.lastError))
    ELSE [c EXCEPT !.pr = [pr EXCEPT !.i = pr.i + 1, !.wait = "value"]]

\* promptSimple after Options.Prompt returned value: the value is set, flagged Prompt
PromptAccept(c, value) ==
    [c EXCEPT !.values[c.i] = value, !.flags[c.i] = Flags(c) \cup {FlagPrompt},
              !.pr = PrIdle, !.phase = AfterStage("prompt")]

\* a mutant of PromptProcess: an empty input always returns no value
PromptProcessEmptyIsNoValue(c, input) ==
    LET prop   == Prop(c)
        pr     == c.pr
        parsed == SetString(prop.Type, ZeroValue(prop.Type), input)
    IN  IF input = <<>>
        THEN [c EXCEPT !.pr = PrIdle, !.phase = AfterStage("prompt")]
        ELSE IF parsed.err # ErrNone
        THEN PromptContinue(c, [pr EXCEPT !.InvalidFormat = pr.InvalidFormat + 1,
                                          !.lastError = parsed.err])
        ELSE PromptAccept(c, parsed.val)

\* Options.Prompt on the input of a try: optional and empty, regex, choices, type, verify
PromptProcess(c, input) ==
    LET prop   == Prop(c)
        pr     == c.pr
        conv   == IF HasChoices(prop.Choices) THEN Convert(prop.Choices, input)
                  ELSE [value |-> input, err |-> ErrNone]
        parsed == SetString(prop.Type, ZeroValue(prop.Type), conv.value)
    IN  IF input = <<>> /\ pr.optional
        THEN [c EXCEPT !.pr = PrIdle, !.phase = AfterStage("prompt")]
        ELSE IF prop.Regex # <<>> /\ ~RegexMatch(prop.Regex, input)
        THEN PromptContinue(c, [pr EXCEPT !.InvalidFormat = pr.InvalidFormat + 1,
                                          !.lastError = ErrRegexFailed])
        ELSE IF conv.err # ErrNone
        THEN PromptContinue(c, [pr EXCEPT !.InvalidChoice = pr.InvalidChoice + 1,
                                          !.lastError = conv.err])
        ELSE IF parsed.err # ErrNone
        THEN PromptContinue(c, [pr EXCEPT !.InvalidFormat = pr.InvalidFormat + 1,
                                          !.lastError = parsed.err])
        ELSE IF prop.PromptVerify
        THEN [c EXCEPT !.pr = [pr EXCEPT !.wait = "verify", !.input = input,
                                         !.value = parsed.val]]
        ELSE PromptAccept(c, parsed.val)

\* a mutant of PromptRead: quit only ends the prompt of this property
PromptReadQuitSkips(c, raw) ==
    LET once == PromptOnce(raw)
    IN  IF once.err # ErrNone
        THEN [c EXCEPT !.pr = PrIdle, !.phase = AfterStage("prompt"),
                       !.quitAt = IF once.input = QuitPrompt THEN c.i ELSE c.quitAt]
        ELSE PromptProcess(c, once.input)

\* a mutant of PromptRead: a request for help uses up a try
PromptReadHelpCostsTry(c, raw) ==
    LET once == PromptOnce(raw)
        pr   == c.pr
    IN  IF once.err # ErrNone
        THEN Return([c EXCEPT !.quitAt = IF once.input = QuitPrompt THEN c.i ELSE c.quitAt],
                    Error(once.err))
        ELSE CASE pr.wait = "value" ->
                    IF once.input = HelpPrompt /\ HelpPrompt # <<>> /\ Prop(c).Help # <<>>
                    THEN [c EXCEPT !.pr.wait = "afterhelp", !.pr.i = pr.i + 1]
                    ELSE PromptProcess(c, once.input)
               [] pr.wait = "afterhelp" -> PromptProcess(c, once.input)
               [] pr.wait = "verify" ->
                    IF once.input # pr.input
                    THEN PromptContinue(c, [pr EXCEPT !.InvalidVerify = pr.InvalidVerify + 1,
                                                      !.lastError = ErrVerifyFailed])
                    ELSE PromptAccept(c, pr.value)

\* a mutant of PromptRead: the verification read is not compared with the input
PromptReadVerifyIgnored(c, raw) ==
    LET once == PromptOnce(raw)
        pr   == c.pr
    IN  IF once.err # ErrNone
        THEN Return([c EXCEPT !.quitAt = IF once.input = QuitPrompt THEN c.i ELSE c.quitAt],
                    Error(once.err))
        ELSE CASE pr.wait = "value" ->
                    IF once.input = HelpPrompt /\ HelpPrompt # <<>> /\ Prop(c).Help # <<>>
                    THEN [c EXCEPT !.pr.wait = "afterhelp"]
                    ELSE PromptProcess(c, once.input)
               [] pr.wait = "afterhelp" -> PromptProcess(c, once.input)
               [] pr.wait = "verify" -> PromptAccept(c, pr.value)

\* Options.Prompt after PromptOnce read raw
PromptRead(c, raw) ==
    LET once == PromptOnce(raw)
        pr   == c.pr
    IN  IF once.err # ErrNone
        THEN Return([c EXCEPT !.quitAt = IF once.input = QuitPrompt THEN c.i ELSE c.quitAt],
                    Error(once.err))
        ELSE CASE pr.wait = "value" ->
                    IF once.input = HelpPrompt /\ HelpPrompt # <<>> /\ Prop(c).Help # <<>>
                    THEN [c EXCEPT !.pr.wait = "afterhelp"]
                    ELSE PromptProcess(c, once.input)
               [] pr.wait = "afterhelp" -> PromptProcess(c, once.input)
               [] pr.wait = "verify" ->
                    IF once.input # pr.input
                    THEN PromptContinue(c, [pr EXCEPT !.InvalidVerify = pr.InvalidVerify + 1,
                                                      !.lastError = ErrVerifyFailed])
                    ELSE PromptAccept(c, pr.value)

\* the prompt reads one answer from the input (the line a verification read
\* is kept in hist)
PromptAnswer ==
    /\ cap.phase = "prompt"
    /\ cap.pr.wait # "none"
    /\ \E raw \in cap.answers :
          cap' = [PromptRead(cap, raw) EXCEPT
                    !.hist.verifyRead = IF cap.pr.wait = "verify"
                                        THEN PromptOnce(raw).input ELSE @]
    /\ UNCHANGED <<ga, cv>>

\* property.Validate
StepValidate ==
    /\ cap.phase = "validate"
    /\ cap' = StageDone(cap, "validate", Validate(Prop(cap), Value(cap)),
                        Value(cap), Flags(cap), cap.args)
    /\ UNCHANGED <<ga, cv>>

\* dynamic.Update(opts, property, inst) when the record is Dynamic; the loop goes on
StepUpdate ==
    /\ cap.phase = "update"
    /\ IF "Dynamic" \in cap.caps
       THEN \E ok \in BOOLEAN :
               LET d == [cap EXCEPT !.trace = Log(cap, "update")]
               IN  cap' = IF ok THEN NextProperty(d) ELSE Return(d, Error("Update"))
       ELSE cap' = NextProperty(cap)
    /\ UNCHANGED <<ga, cv>>

\* after the loop: validate.Validate(opts) when the record is a Validator; return
CaptureFinish ==
    /\ cap.phase = "finish"
    /\ IF "Validator" \in cap.caps
       THEN \E ok \in BOOLEAN :
               cap' = Return([cap EXCEPT !.trace = Log(cap, "validator")],
                             IF ok THEN NoError ELSE Error("Validate"))
       ELSE cap' = Return(cap, NoError)
    /\ UNCHANGED <<ga, cv>>

----------------------------------------------------------------------------
(* Container properties: fromArgsStruct, fromArgsSlice, fromArgsArray,     *)
(* fromArgsMap. Each captures its parts with captureValue, a Capture of a  *)
(* sub-instance; the capture that called it waits in the field parent.     *)

MaxItems == 2

\* the state of the container code of the property being captured: where it
\* waits, the elements so far, the flags set on the property so far, the
\* indexes of the elements it prompted again
\* the zero PromptContext
NoContext == [IsMapKey |-> FALSE, IsMapValue |-> FALSE, MapKey |-> <<>>,
              IsSlice |-> FALSE, SliceIndex |-> 0, Reprompt |-> FALSE]

\* PromptContext.reset
reset(pc) ==
    [pc EXCEPT !.IsMapKey = FALSE, !.MapKey = <<>>, !.IsMapValue = FALSE,
               !.SliceIndex = 0 - 1, !.IsSlice = FALSE]

forMapKey(pc) == [reset(pc) EXCEPT !.IsMapKey = TRUE]

\* (the key of a map here is a string: Sprintf gives its text)
forMapValue(pc, key) == [reset(pc) EXCEPT !.MapKey = key.s, !.IsMapValue = TRUE]

forSlice(pc, index) == [reset(pc) EXCEPT !.IsSlice = TRUE, !.SliceIndex = index]

\* the locals of the container code: argPrefix and promptContext are the
\* values of the options the deferred function puts back (entered: the defer
\* statement was reached)
CtIdle == [stage |-> "none", items |-> <<>>, keys |-> <<>>, index |-> 0,
           key |-> ZeroScalar(TString), keyFlags |-> {}, flags |-> {}, again |-> <<>>,
           argPrefix |-> <<>>, promptContext |-> NoContext, entered |-> FALSE]

\* NewOptions: ArgStartIndex
ArgStartIndex == 1

\* getArgTemplate(...).get(): ArgStructTemplate, ArgSliceTemplate and
\* ArgArrayTemplate of NewOptions for scalar elements, ArgMapKeyTemplate and
\* ArgMapValueTemplate
\* a mutant of ArgSlicePrefix: the element of a list of records has no index
ArgSlicePrefixNoIndex(argPrefix, prop, index) == argPrefix \o prop.Arg

\* IsSimple of getArgTemplate: the kind is no struct, array, slice or map
TemplateIsSimple(t) == t.kind \notin {"struct", "array", "slice", "map"}

ArgStructPrefix(argPrefix, prop) == argPrefix \o prop.Arg \o <<"-">>
ArgSlicePrefix(argPrefix, prop, index) ==
    argPrefix \o prop.Arg \o (IF TemplateIsSimple(prop.Type.elem) THEN <<>>
                              ELSE <<"-", DigitChars[index + 1], "-">>)
ArgArrayPrefix(argPrefix, prop, index) ==
    argPrefix \o prop.Arg \o <<"-">> \o <<DigitChars[index + 1]>>
ArgMapKeyPrefix(argPrefix, prop)   == argPrefix \o prop.Arg \o <<"-","k","e","y">>
ArgMapValuePrefix(argPrefix, prop) == argPrefix \o prop.Arg \o <<"-","v","a","l","u","e">>

\* GetSubInstance for a value that is not a struct: one property with the
\* Name, PromptText, PromptMulti and Choices of prop
SubProperty(prop, t) ==
    [prop EXCEPT !.Type = t, !.HidePrompt = FALSE, !.PromptVerify = FALSE,
                 !.PromptEmpty = FALSE, !.PromptTries = 0, !.Reprompt = FALSE,
                 !.PromptStart = <<>>,
                 !.PromptMore = <<>>, !.Help = <<>>, !.Default = <<>>, !.Regex = <<>>,
                 !.Env = <<>>, !.Arg = <<>>, !.Min = NoBound, !.Max = NoBound,
                 !.panic = FALSE]

\* GetSubInstance for an element of type t: the properties of a struct's
\* fields, or the one property of another value
ElementProps(prop, t) ==
    IF t.kind = "struct" THEN [j \in DOMAIN t.fields |-> getStructProperty(t.fields[j])]
    ELSE <<SubProperty(prop, t)>>

\* the values of the properties of that sub-instance for element v
ElementValues(t, v) == IF t.kind = "struct" THEN v.f ELSE <<v>>

\* the element after the capture of its sub-instance left values
ElementOf(t, values) ==
    IF t.kind = "struct" THEN [nil |-> FALSE, f |-> values] ELSE values[1]

\* captureValue up to instance.Capture: the sub-instance of props and values
\* starts its Capture with opts.ArgPrefix = argPrefix; the caller waits at stage
captureValue(c, stage, props, values, argPrefix) ==
    [c EXCEPT !.phase = "begin", !.i = 0, !.fields = <<>>, !.props = props,
              !.values = values, !.values0 = values,
              !.flags = [k \in DOMAIN props |-> {}],
              !.argPrefix = argPrefix, !.caps = {}, !.pr = PrIdle, !.prompted = {},
              !.quitAt = 0, !.trace = <<>>, !.err = NoError, !.ct = CtIdle,
              !.depth = c.depth + 1,
              !.parent = [c EXCEPT !.ct.stage = stage]]

\* a mutant of important: the default and environment flags are kept
importantAll(sub) ==
    IF sub.err # NoError THEN {}
    ELSE UNION {sub.flags[k] : k \in DOMAIN sub.flags}

\* captureValue after instance.Capture: instance.Flags() without Default and Env
important(sub) ==
    IF sub.err # NoError THEN {}
    ELSE UNION {sub.flags[k] : k \in DOMAIN sub.flags} \ {FlagDefault, FlagEnv}

\* a mutant of ContainerDone: the options keep the prefix and the context of
\* the last part captured
ContainerDoneNoDefer(c, err, value, flags) ==
    StageDone([c EXCEPT !.ct = CtIdle], "args", err, value, flags, c.args)

\* the container code of the property returns err: FromArgs is over. The
\* deferred function, when the defer statement was reached, puts back
\* opts.ArgPrefix, and in fromArgsSlice and fromArgsMap opts.PromptContext
ContainerDone(c, err, value, flags) ==
    LET d == IF ~c.ct.entered THEN c
             ELSE [c EXCEPT !.argPrefix = c.ct.argPrefix,
                            !.ctx = IF IsSlice(Prop(c)) \/ IsMap(Prop(c))
                                    THEN c.ct.promptContext ELSE @]
    IN  StageDone([d EXCEPT !.ct = CtIdle], "args", err, value, flags, c.args)

\* PromptStartOptions and PromptMoreOptions of NewOptions
promptOptionsTrue  == {<<"y">>, <<"y","e","s">>, <<"1">>, <<"t">>, <<"t","r","u","e">>,
                       <<"o","k">>, <<>>}
promptOptionsFalse == {<<"n">>, <<"n","o">>, <<"0">>, <<"f">>,
                       <<"f","a","l","s","e">>}

\* promptStart asks (PromptStart of NewOptions reads an answer)
StartAsks(c) ==
    ~Prop(c).HidePrompt /\ Prop(c).PromptStart # sDash /\ OptsCanPrompt(c)

\* promptMore asks (PromptMore of NewOptions reads an answer)
MoreAsks(c) == Prop(c).PromptMore # <<>> /\ OptsCanPrompt(c)

\* fromArgsStruct after promptStart: the nested value (a new one for a nil
\* pointer) is captured with the prefix of ArgStructTemplate
StructGo(c) ==
    LET prop == Prop(c)
        t    == prop.Type
    IN  captureValue(c, "struct",
                     [j \in DOMAIN t.fields |-> getStructProperty(t.fields[j])],
                     Value(c).f, ArgStructPrefix(c.ct.argPrefix, prop))

\* fromArgsStruct after captureValue: the flags are set on the property; an
\* optional property is set to the captured value when a flag is left
StructResume(c, sub) ==
    LET prop    == Prop(c)
        flags   == important(sub)
        inPlace == [nil |-> FALSE, f |-> sub.values]
    IN  IF sub.err # NoError
        THEN ContainerDone(c, sub.err, IF Value(c).nil THEN Value(c) ELSE inPlace,
                           Flags(c))
        ELSE ContainerDone(c, NoError,
                           IF Value(c).nil /\ (~IsOptional(prop) \/ flags = {})
                           THEN Value(c) ELSE inPlace,
                           Flags(c) \cup flags)

\* fromArgsSlice, the loop `for additionalValues`: the next element is captured
\* with captureType and the prefix of ArgSliceTemplate
SliceNext(c) ==
    captureValue([c EXCEPT !.ctx = forSlice(c.ctx, Len(c.ct.items))], "element", ElementProps(Prop(c), Prop(c).Type.elem),
                 ElementValues(Prop(c).Type.elem, ZeroValue(Prop(c).Type.elem)),
                 ArgSlicePrefix(c.ct.argPrefix, Prop(c), Len(c.ct.items) + ArgStartIndex))

\* the slice the property holds while fromArgsSlice runs: the elements it
\* held, as the captures in place left them
SliceInPlace(c) ==
    IF Value(c).nil THEN Value(c)
    ELSE [nil |-> FALSE, items |-> SubSeq(c.ct.items, 1, Len(Value(c).items))]

\* fromArgsSlice after the loop: the slice is set when it has elements
SliceEnd(c) ==
    ContainerDone(c, NoError,
                  IF Len(c.ct.items) > 0 THEN [nil |-> FALSE, items |-> c.ct.items]
                  ELSE Value(c),
                  Flags(c) \cup c.ct.flags)

\* the end of an iteration of the loop: promptMore when min is reached
SliceMore(c) ==
    IF (~Prop(c).Min.set \/ Len(c.ct.items) >= Prop(c).Min.v) /\ MoreAsks(c)
    THEN [c EXCEPT !.ct.stage = "more"]
    ELSE SliceNext(c)

\* a mutant of LoopStops: the loop goes on while length + 1 has only reached min
LoopStopsAboveMin(c, loaded, length) ==
    /\ loaded = {}
    /\ ~Prop(c).Min.set \/ length + 1 > Prop(c).Min.v
    /\ ~OptsCanPrompt(c)

\* the `break` of the loops of fromArgsSlice and fromArgsMap: nothing loaded the
\* element (key), min does not ask for it, and there is no prompting
LoopStops(c, loaded, length) ==
    /\ loaded = {}
    /\ ~Prop(c).Min.set \/ length + 1 >= Prop(c).Min.v
    /\ ~OptsCanPrompt(c)

\* a mutant of SliceResume: a discarded element is appended like any other
SliceResumeDiscardKeeps(c, sub) ==
    LET loaded == important(sub)
        length == Len(c.ct.items)
    IN  IF sub.err # NoError /\ sub.err.kind # ErrDiscard
        THEN ContainerDone(c, sub.err, SliceInPlace(c), Flags(c) \cup c.ct.flags)
        ELSE LET d == [c EXCEPT !.ct.items = Append(c.ct.items,
                                                    ElementOf(Prop(c).Type.elem, sub.values)),
                                !.ct.flags = c.ct.flags \cup loaded]
             IN  IF Prop(c).Max.set /\ length + 1 >= Prop(c).Max.v
                 THEN SliceEnd(d) ELSE SliceMore(d)

\* a mutant of SliceResume: a discarded element ends the capture of the slice
\* with the discard error
SliceResumeDiscardFails(c, sub) ==
    LET loaded == important(sub)
        length == Len(c.ct.items)
    IN  IF sub.err # NoError
        THEN ContainerDone(c, sub.err, SliceInPlace(c), Flags(c) \cup c.ct.flags)
        ELSE IF LoopStops(c, loaded, length) THEN SliceEnd(c)
        ELSE LET d == [c EXCEPT !.ct.items = Append(c.ct.items,
                                                    ElementOf(Prop(c).Type.elem, sub.values)),
                                !.ct.flags = c.ct.flags \cup loaded]
             IN  IF Prop(c).Max.set /\ length + 1 >= Prop(c).Max.v
                 THEN SliceEnd(d) ELSE SliceMore(d)

\* fromArgsSlice after captureType: a discarded element is dropped, another
\* error is returned; an element nothing loaded ends the loop when prompting is
\* off and min allows; else it is appended, and max ends the loop
SliceResume(c, sub) ==
    LET keep   == sub.err.kind # ErrDiscard
        loaded == important(sub)
        length == Len(c.ct.items)
    IN  IF sub.err # NoError /\ keep
        THEN ContainerDone(c, sub.err, SliceInPlace(c), Flags(c) \cup c.ct.flags)
        ELSE IF ~keep THEN SliceMore(c)
        ELSE IF LoopStops(c, loaded, length) THEN SliceEnd(c)
        ELSE LET d == [c EXCEPT !.ct.items = Append(c.ct.items,
                                                    ElementOf(Prop(c).Type.elem, sub.values)),
                                !.ct.flags = c.ct.flags \cup loaded]
             IN  IF Prop(c).Max.set /\ length + 1 >= Prop(c).Max.v
                 THEN SliceEnd(d) ELSE SliceMore(d)

\* the loop over the held elements is left with additionalValues set:
\* PromptContext.Reprompt is cleared and the loop `for additionalValues` starts
SliceAgainOver(c) == SliceNext([c EXCEPT !.ctx.Reprompt = FALSE])

\* fromArgsSlice, the loop over the elements the slice holds, entered with
\* reprompt and prompting: element index is captured in place
SliceAgain(c) ==
    captureValue([c EXCEPT !.ctx = forSlice([c.ctx EXCEPT !.Reprompt = TRUE],
                                            c.ct.index - 1)], "again", ElementProps(Prop(c), Prop(c).Type.elem),
                 ElementValues(Prop(c).Type.elem, c.ct.items[c.ct.index]),
                 ArgSlicePrefix(c.ct.argPrefix, Prop(c), c.ct.index - 1 + ArgStartIndex))

\* the loop over the held elements goes to the next one; after the last the
\* loop `for additionalValues` starts
SliceAgainStep(c) ==
    IF c.ct.index + 1 <= Len(c.ct.items)
    THEN SliceAgain([c EXCEPT !.ct.index = c.ct.index + 1])
    ELSE SliceAgainOver(c)

\* the loop over the held elements after captureValue: an error other than
\* discard is returned; the loop is left when max is reached (the loop
\* `for additionalValues` follows); else promptMore when min is reached
SliceAgainResume(c, sub) ==
    LET keep   == sub.err.kind # ErrDiscard
        loaded == important(sub)
        length == Len(c.ct.items)
        d == [c EXCEPT !.ct.items[c.ct.index] = ElementOf(Prop(c).Type.elem, sub.values),
                       !.ct.again = Append(c.ct.again, c.ct.index)]
        e == [d EXCEPT !.ct.flags = c.ct.flags \cup loaded]
    IN  IF sub.err # NoError /\ keep
        THEN ContainerDone(d, sub.err, SliceInPlace(d), Flags(c) \cup c.ct.flags)
        ELSE IF keep /\ LoopStops(c, loaded, length) THEN SliceAgainOver(d)
        ELSE IF keep /\ Prop(c).Max.set /\ length >= Prop(c).Max.v THEN SliceAgainOver(e)
        ELSE LET g == IF keep THEN e ELSE d
             IN  IF (~Prop(c).Min.set \/ length >= Prop(c).Min.v) /\ MoreAsks(c)
                 THEN [g EXCEPT !.ct.stage = "againmore"]
                 ELSE SliceAgainStep(g)

\* fromArgsArray, the loop over the elements: element index is captured in
\* place with the prefix of ArgArrayTemplate
ArrayNext(c) ==
    captureValue(c, "array", <<SubProperty(Prop(c), Prop(c).Type.elem)>>,
                 <<c.ct.items[c.ct.index]>>,
                 ArgArrayPrefix(c.ct.argPrefix, Prop(c), c.ct.index - 1 + ArgStartIndex))

\* fromArgsArray after captureValue: an error is returned, whatever it is;
\* after the last element the flags are set on the property
ArrayResume(c, sub) ==
    LET d == [c EXCEPT !.ct.items[c.ct.index] = sub.values[1],
                       !.ct.flags = c.ct.flags \cup important(sub),
                       !.ct.index = c.ct.index + 1]
        value == [nil |-> FALSE, items |-> d.ct.items]
    IN  IF sub.err # NoError
        THEN ContainerDone(c, sub.err, IF Value(c).nil THEN Value(c) ELSE value, Flags(c))
        ELSE IF d.ct.index <= Prop(c).Type.len THEN ArrayNext(d)
        ELSE ContainerDone(c, NoError,
                           IF Value(c).nil /\ d.ct.flags = {} THEN Value(c) ELSE value,
                           Flags(c) \cup d.ct.flags)

\* a mutant of SetMapIndex: an entry is added even when its key is in the map
SetMapIndexAppend(keys, vals, key, value) ==
    [keys |-> Append(keys, key), vals |-> Append(vals, value)]

\* reflect.Value.SetMapIndex on the map kept as the keys and their values
SetMapIndex(keys, vals, key, value) ==
    IF \E j \in DOMAIN keys : keys[j] = key
    THEN [keys |-> keys,
          vals |-> [j \in DOMAIN vals |-> IF keys[j] = key THEN value ELSE vals[j]]]
    ELSE [keys |-> Append(keys, key), vals |-> Append(vals, value)]

\* the map a capture of the map property has built or changed so far
MapValue(c) == [nil |-> FALSE, keys |-> c.ct.keys, vals |-> c.ct.items]

\* fromArgsMap returns an error: a map that existed was changed in place
MapFail(c, err) ==
    ContainerDone(c, err, IF Value(c).nil THEN Value(c) ELSE MapValue(c), Flags(c))

\* fromArgsMap after the loop: the flags are set; a new map is set when a flag
\* was loaded
MapEnd(c) ==
    ContainerDone(c, NoError,
                  IF Value(c).nil /\ c.ct.flags = {} THEN Value(c) ELSE MapValue(c),
                  Flags(c) \cup c.ct.flags)

\* fromArgsMap, the loop `for additionalValues`: the key is captured with
\* captureType and the prefix of ArgMapKeyTemplate
MapNext(c) ==
    captureValue([c EXCEPT !.ctx = forMapKey(c.ctx)], "key",
                 <<SubProperty(Prop(c), Prop(c).Type.key)>>,
                 <<ZeroScalar(Prop(c).Type.key)>>, ArgMapKeyPrefix(c.ct.argPrefix, Prop(c)))

\* a mutant of MapMore: promptMore is called whatever the length
MapMoreBelowMin(c) ==
    IF MoreAsks(c) THEN [c EXCEPT !.ct.stage = "more"] ELSE MapNext(c)

\* the end of an iteration of the loop: promptMore when min is reached
MapMore(c) ==
    IF (~Prop(c).Min.set \/ Len(c.ct.keys) >= Prop(c).Min.v) /\ MoreAsks(c)
    THEN [c EXCEPT !.ct.stage = "more"]
    ELSE MapNext(c)

\* fromArgsMap after the capture of the key: a discarded key skips the entry;
\* a key nothing loaded ends the loop when prompting is off and min allows;
\* else the value is captured with the prefix of ArgMapValueTemplate
MapKeyResume(c, sub) ==
    LET keyKeep   == sub.err.kind # ErrDiscard
        keyLoaded == important(sub)
    IN  IF sub.err # NoError /\ keyKeep THEN MapFail(c, sub.err)
        ELSE IF ~keyKeep THEN MapMore(c)
        ELSE IF LoopStops(c, keyLoaded, Len(c.ct.keys)) THEN MapEnd(c)
        ELSE captureValue([c EXCEPT !.ct.key = sub.values[1],
                                    !.ct.keyFlags = keyLoaded,
                                    !.ctx = forMapValue(c.ctx, sub.values[1])],
                          "value", <<SubProperty(Prop(c), Prop(c).Type.elem)>>,
                          <<ZeroScalar(Prop(c).Type.elem)>>,
                          ArgMapValuePrefix(c.ct.argPrefix, Prop(c)))

\* fromArgsMap after the capture of the value: a discarded value skips the
\* entry; else the entry is put in the map, and max ends the loop
MapValueResume(c, sub) ==
    LET valueKeep == sub.err.kind # ErrDiscard
        put == SetMapIndex(c.ct.keys, c.ct.items, c.ct.key, sub.values[1])
        d   == [c EXCEPT !.ct.keys = put.keys, !.ct.items = put.vals,
                         !.ct.flags = c.ct.flags \cup c.ct.keyFlags
                                        \cup important(sub)]
    IN  IF sub.err # NoError /\ valueKeep THEN MapFail(c, sub.err)
        ELSE IF ~valueKeep THEN MapMore(c)
        ELSE IF Prop(c).Max.set /\ Len(d.ct.keys) >= Prop(c).Max.v THEN MapEnd(d)
        ELSE MapMore(d)

\* the container code after promptStart said yes: the value of the property (a
\* new one when it is nil) and the loop over its parts
ContainerEnter(c) ==
    LET prop == Prop(c)
        d    == [c EXCEPT !.ct = [CtIdle EXCEPT
                    !.argPrefix = c.argPrefix, !.promptContext = c.ctx, !.entered = TRUE,
                    !.items = IF IsSlice(prop) \/ IsArray(prop) THEN Value(c).items
                              ELSE IF IsMap(prop) THEN Value(c).vals ELSE <<>>,
                    !.keys  = IF IsMap(prop) THEN Value(c).keys ELSE <<>>,
                    !.index = 1]]
    IN  CASE IsStruct(prop) -> StructGo(d)
          [] IsSlice(prop)  -> IF prop.HidePrompt THEN SliceEnd(d)
                               ELSE IF prop.Reprompt /\ OptsCanPrompt(c)
                                       /\ Len(d.ct.items) > 0
                               THEN SliceAgain(d)
                               ELSE SliceNext(d)
          [] IsArray(prop)  -> ArrayNext(d)
          [] IsMap(prop)    -> IF prop.HidePrompt THEN MapEnd(d) ELSE MapNext(d)

\* FromArgs reaches the container code of the property
EntersContainer(c) == CanFromArgs(Prop(c)) /\ IsContainer(Prop(c))

\* property.FromArgs of a struct, slice, array or map: promptStart asks, or the
\* capture of the parts starts
StepFromArgsContainer ==
    /\ cap.phase = "args" /\ cap.ct.stage = "none"
    /\ EntersContainer(cap)
    /\ LET c == [cap EXCEPT !.hist.before = [argPrefix |-> cap.argPrefix,
                                              ctx |-> cap.ctx]]
       IN  cap' = IF StartAsks(c) THEN [c EXCEPT !.ct.stage = "start"]
                  ELSE ContainerEnter(c)
    /\ UNCHANGED <<ga, cv>>

\* the container code returns err while a question waits
QuestionFail(c, err) ==
    CASE IsMap(Prop(c)) /\ c.ct.stage = "more" -> MapFail(c, err)
      [] IsSlice(Prop(c)) /\ c.ct.stage # "start" ->
            ContainerDone(c, err, SliceInPlace(c), Flags(c) \cup c.ct.flags)
      [] OTHER -> ContainerDone(c, err, Value(c), Flags(c))

\* PromptStart and PromptMore of NewOptions after PromptOnce read raw: an error
\* is returned, a recognised answer decides, anything else asks again
QuestionRead(c, raw) ==
    LET once   == PromptOnce(raw)
        answer == ToLower(once.input)
    IN  IF once.err # ErrNone
        THEN QuestionFail([c EXCEPT !.hist.discardAt = IF once.err = ErrDiscard
                                                       THEN c.ct.stage ELSE @],
                          Error(once.err))
        ELSE IF answer \in promptOptionsTrue
        THEN CASE c.ct.stage = "start"     -> ContainerEnter(c)
               [] c.ct.stage = "againmore" -> SliceAgainStep(c)
               [] IsMap(Prop(c))           -> MapNext(c)
               [] OTHER                    -> SliceNext(c)
        ELSE IF answer \in promptOptionsFalse
        THEN CASE c.ct.stage = "start" -> ContainerDone(c, NoError, Value(c), Flags(c))
               [] IsMap(Prop(c))       -> MapEnd(c)
               [] OTHER                -> SliceEnd(c)
        ELSE c

\* the container's question reads one answer from the input; a container that
\* holds MaxItems elements is not continued
QuestionAnswer ==
    /\ cap.phase = "args" /\ cap.ct.stage \in {"start", "more", "againmore"}
    /\ \E raw \in cap.answers :
          /\ (/\ Len(cap.ct.items) >= MaxItems
              /\ \/ cap.ct.stage = "more"
                 \/ cap.ct.stage = "againmore" /\ cap.ct.index = Len(cap.ct.items)) =>
                ToLower(PromptOnce(raw).input) \notin promptOptionsTrue
          /\ cap' = QuestionRead(cap, raw)
    /\ UNCHANGED <<ga, cv>>

\* instance.Capture of a sub-instance returned to captureValue: the container
\* code that waited goes on, with the arguments the sub-instance left
SubResume(sub) ==
    LET c == [sub.parent EXCEPT
                !.args = sub.args, !.argPrefix = sub.argPrefix, !.ctx = sub.ctx,
                !.hist.subflags = @ \cup UNION {sub.flags[k] : k \in DOMAIN sub.flags},
                !.hist.discardAt = IF sub.err.kind = ErrDiscard THEN sub.parent.ct.stage
                                   ELSE @]
    IN  CASE c.ct.stage = "struct"  -> StructResume(c, sub)
          [] c.ct.stage = "element" -> SliceResume(c, sub)
          [] c.ct.stage = "again"   -> SliceAgainResume(c, sub)
          [] c.ct.stage = "array"   -> ArrayResume(c, sub)
          [] c.ct.stage = "key"     -> MapKeyResume(c, sub)
          [] c.ct.stage = "value"   -> MapValueResume(c, sub)

SubReturn ==
    /\ cap.phase = "returned" /\ cap.depth > 0
    /\ cap' = SubResume(cap)
    /\ UNCHANGED <<ga, cv>>

----------------------------------------------------------------------------
(* Registry.Capture                                                        *)

sHelp        == <<"h","e","l","p">>
sInteractive == <<"i","n","t","e","r","a","c","t","i","v","e">>
sEcho        == <<"e","c","h","o">>
sExit        == <<"e","x","i","t">>
sTool        == <<"t","o","o","l">>

ErrNoCommand       == "no command given"
ErrCommandNotFound == "command not found"
ErrReadFile        == "open: no such file"

\* CaptureImports: the argument names of the importers
CaptureImports == << <<"j","s","o","n">>, <<"y","a","m","l">>, <<"x","m","l">> >>

\* Registry.Matches: the entry of that exact name, else the entries it is a prefix of
Matches(r, namePartial) ==
    LET name == Normalize(namePartial)
    IN  IF name \in DOMAIN r THEN {name}
        ELSE IF name = <<>> THEN {}
        ELSE {key \in DOMAIN r : HasPrefix(key, name)}

\* Registry.EntryFor: the only match, or nil (the empty set)
EntryFor(r, namePartial) ==
    IF Cardinality(Matches(r, namePartial)) = 1 THEN Matches(r, namePartial) ELSE {}

\* a RegistryEntry holds a Command or a registry of sub commands
EntryOf(command) == [Command |-> command, Sub |-> <<>>]

GroupOf(sub) == [Command |-> <<>>, Sub |-> sub]

\* Registry.IsEmpty
IsEmpty(r) == DOMAIN r = {}

\* the loop of EntryForDeep from entry := EntryFor(namePartials[i]) on, i counted
\* from 0 as in the code: the entry found (or nil, the empty set), the depth
\* returned, and the highest index of namePartials that was read
RECURSIVE EntryForDeepFrom(_, _, _)
EntryForDeepFrom(r, namePartials, i) ==
    LET entry == EntryFor(r, namePartials[i + 1])
    IN  IF entry = {} THEN [entry |-> {}, depth |-> i, read |-> i]
        ELSE LET e == r[CHOOSE key \in entry : TRUE]
             IN  IF IsEmpty(e.Sub) THEN [entry |-> {e}, depth |-> i, read |-> i]
                 ELSE IF i + 1 >= Len(namePartials)
                 THEN [entry |-> {}, depth |-> i + 1, read |-> i + 1]
                 ELSE EntryForDeepFrom(e.Sub, namePartials, i + 1)

\* Registry.EntryForDeep
EntryForDeep(r, namePartials) == EntryForDeepFrom(r, namePartials, 0)

\* the index expression namePartials[i] of EntryForDeep went out of range
OutOfRange(deep, namePartials) == deep.read >= Len(namePartials)

\* the GetArg calls of the importers, one after the other: the paths found and
\* the arguments left
RECURSIVE ImportArgs(_, _, _)
ImportArgs(names, args, argPrefix) ==
    IF names = <<>> THEN [paths |-> {}, args |-> args]
    ELSE LET r    == GetArg(Head(names), <<>>, args, argPrefix, FALSE)
             rest == ImportArgs(Tail(names), r.args, argPrefix)
         IN  [paths |-> (IF r.value # <<>> THEN {r.value} ELSE {}) \cup rest.paths,
              args  |-> rest.args]

\* Registry.Capture returns without a command
RegistryFail(c, args, err) ==
    [c EXCEPT !.phase = "done", !.args = args, !.err = Error(err)]

\* Registry.Capture up to commandInstance.Capture: help, the command named by
\* the first argument, interactive, the importers, DisablePrompt
RegistryCaptureOf(c) ==
    LET help        == GetArg(sHelp, <<>>, c.args, c.argPrefix, FALSE)
        names       == IF Len(help.args) = 0 THEN << <<>> >> ELSE help.args
        deep        == EntryForDeep(c.registry, names)
        looked      == [c EXCEPT !.hist.names = names, !.hist.read = deep.read]
        rest        == IF names[1] # <<>> THEN Drop(help.args, deep.depth + 1)
                       ELSE help.args
        intDefault  == IF Len(rest) = 0 THEN tTrue ELSE tFalse
        inter       == GetArg(sInteractive, intDefault, rest, c.argPrefix, TRUE)
        interactive == ParseBool(inter.value).b
        imports     == ImportArgs(CaptureImports, inter.args, c.argPrefix)
    IN  IF Len(help.args) # Len(c.args) THEN RegistryFail(c, help.args, "help")
        ELSE IF Len(help.args) = 0 /\ EntryFor(c.registry, <<>>) = {}
        THEN RegistryFail(c, help.args, ErrNoCommand)
        ELSE IF OutOfRange(deep, names)
        THEN [looked EXCEPT !.phase = "panic", !.args = help.args]
        ELSE IF deep.entry = {} THEN RegistryFail(looked, help.args, ErrCommandNotFound)
        ELSE IF imports.paths # {} THEN RegistryFail(looked, imports.args, ErrReadFile)
        ELSE LET fields == (CHOOSE e \in deep.entry : TRUE).Command
             IN  [looked EXCEPT !.phase = "new",
                           !.args = imports.args,
                           !.interactive = interactive,
                           !.DisablePrompt = IF interactive THEN c.DisablePrompt ELSE TRUE,
                           !.deferred = ~interactive,
                           !.fields = fields,
                           !.values = [k \in DOMAIN fields |-> ZeroValue(fields[k].Type)],
                           !.values0 = [k \in DOMAIN fields |-> ZeroValue(fields[k].Type)],
                           !.flags = [k \in DOMAIN fields |-> {}]]

RegistryCapture ==
    /\ cap.phase = "registry"
    /\ cap' = RegistryCaptureOf(cap)
    /\ UNCHANGED <<ga, cv>>

\* commandInstance.Capture returned: the deferred reset of DisablePrompt runs,
\* and the command or the error is returned
RegistryReturn ==
    /\ cap.phase = "returned"
    /\ cap.viaRegistry
    /\ cap' = [cap EXCEPT !.phase = "done",
                          !.DisablePrompt = IF cap.deferred THEN FALSE ELSE cap.DisablePrompt]
    /\ UNCHANGED <<ga, cv>>

\* a mutant of ExecuteReturn: an Executable command is executed whatever
\* Registry.Capture returned
ExecuteReturnAlways(c) ==
    [c EXCEPT !.phase = "executed", !.hist.executed = "Executable" \in c.caps]

\* Registry.ExecuteReturn after r.Capture: an error is returned as it is; an
\* Executable command is executed
ExecuteReturn(c) ==
    [c EXCEPT !.phase = "executed",
              !.hist.executed = c.err = NoError /\ "Executable" \in c.caps]

RegistryExecute ==
    /\ cap.phase = "done"
    /\ cap.viaRegistry
    /\ cap' = ExecuteReturn(cap)
    /\ UNCHANGED <<ga, cv>>

\* what a slice that shares the array of args and keeps its length holds after
\* GetArg(name, "", &args, argPrefix, false): append(argsNow[0:index],
\* argsNow[index+erase:]...) moves the tokens behind the erased ones forward
\* in the shared array and leaves the last ones where they were
GetArgShared(name, args, argPrefix) ==
    LET index == ArgIndex(args, Normalize(name), argPrefix, 1)
        erase == GetArgErase(args, argPrefix, index)
    IN  IF index > Len(args) THEN args
        ELSE [k \in 1..Len(args) |->
                 IF k >= index /\ k + erase <= Len(args) THEN args[k + erase] ELSE args[k]]

\* Registry.Peek: args := opts.Args[:] shares the array of opts.Args; nil when
\* help is asked for or no command is found, else the command
Peek(c) ==
    LET help   == GetArg(sHelp, <<>>, c.args, c.argPrefix, FALSE)
        names  == IF Len(help.args) = 0 THEN << <<>> >> ELSE help.args
        deep   == EntryForDeep(c.registry, names)
        shared == GetArgShared(sHelp, c.args, c.argPrefix)
        after  == [c EXCEPT !.args = shared, !.args0 = shared, !.hist.peeked = TRUE]
    IN  IF Len(help.args) # Len(c.args) THEN after
        ELSE IF Len(help.args) = 0 /\ EntryFor(c.registry, <<>>) = {} THEN after
        ELSE IF OutOfRange(deep, names)
        THEN [after EXCEPT !.phase = "panic", !.hist.names = names, !.hist.read = deep.read]
        ELSE after

RegistryPeek ==
    /\ cap.phase = "registry"
    /\ ~cap.hist.peeked
    /\ cap' = Peek(cap)
    /\ UNCHANGED <<ga, cv>>

----------------------------------------------------------------------------
(* A harness that calls GetArg once on bounded inputs                      *)

MaxArgs == 3

GATokens   == {tAge, tAgeCaps, tX, tFive, tFalse}
GANames    == {sAge, sX}
GADefaults == {sEmpty, tFive, tFalse}
GAPrefixes == {pDashes, pDash}

GAIdle == [phase |-> "idle", name |-> sEmpty, def |-> sEmpty, args |-> <<>>,
           prefix |-> sEmpty, flag |-> FALSE, value |-> sEmpty, rest |-> <<>>]

CVIdle == [phase |-> "idle", pc |-> NoChoices, added |-> 0, input |-> sEmpty,
           value |-> sEmpty, err |-> ErrNone]

CapIdle == [phase |-> "idle"]

InitGetArg ==
    /\ \E name \in GANames, def \in GADefaults, args \in SeqsUpTo(GATokens, MaxArgs),
          prefix \in GAPrefixes, flag \in BOOLEAN :
          ga = [phase |-> "in", name |-> name, def |-> def, args |-> args,
                prefix |-> prefix, flag |-> flag, value |-> sEmpty, rest |-> <<>>]
    /\ cv = CVIdle
    /\ cap = CapIdle

\* value := GetArg(name, defaultValue, &args, argPrefix, flag)
CallGetArg ==
    /\ ga.phase = "in"
    /\ LET r == GetArg(ga.name, ga.def, ga.args, ga.prefix, ga.flag)
       IN  ga' = [ga EXCEPT !.phase = "out", !.value = r.value, !.rest = r.args]
    /\ UNCHANGED <<cv, cap>>

NextGetArg == CallGetArg

SpecGetArg == InitGetArg /\ [][NextGetArg]_vars

----------------------------------------------------------------------------
(* Properties of GetArg                                                    *)

\* the positions of the tokens that name ga.name under ga.prefix
GAMatchSet ==
    {i \in 1..Len(ga.args) : ArgMatches(ga.args[i], Normalize(ga.name), ga.prefix)}

GAFirst == CHOOSE i \in GAMatchSet : \A j \in GAMatchSet : i <= j

\* a token that starts with the argument prefix looks like another flag
LooksLikeFlag(tok, prefix) == HasPrefix(ToLower(tok), ToLower(prefix))

\* s without the n elements that start at position i
RemoveAt(s, i, n) == [k \in 1..(Len(s) - n) |-> IF k < i THEN s[k] ELSE s[k + n]]

GAHasValueToken ==
    /\ GAMatchSet # {}
    /\ GAFirst + 1 <= Len(ga.args)
    /\ ~LooksLikeFlag(ga.args[GAFirst + 1], ga.prefix)

GANoValueToken ==
    /\ GAMatchSet # {}
    /\ \/ GAFirst = Len(ga.args)
       \/ LooksLikeFlag(ga.args[GAFirst + 1], ga.prefix)

\* C6: when a token matching prefix+name is followed by a value token, GetArg
\* returns that value and removes exactly the first matching name token and its
\* value token, every other token staying in order; when no token matches it
\* returns the default and leaves the token list unchanged.
C6_ValueReturnedAndRemoved ==
    ga.phase = "out" =>
        /\ GAHasValueToken =>
              /\ ga.value = ga.args[GAFirst + 1]
              /\ ga.rest = RemoveAt(ga.args, GAFirst, 2)
        /\ GAMatchSet = {} =>
              /\ ga.value = ga.def
              /\ ga.rest = ga.args

\* C7: a boolean flag whose name token is the last token, or is followed by a
\* token that looks like another flag, resolves to "true", and only the name
\* token is removed from the token list.
C7_FlagWithoutValueIsTrue ==
    (ga.phase = "out" /\ ga.flag /\ GANoValueToken) =>
        /\ ga.value = tTrue
        /\ ga.rest = RemoveAt(ga.args, GAFirst, 1)

\* C7 witness: a flag followed by another flag has been resolved, with tokens on both sides
C7_Witness ==
    /\ ga.phase = "out"
    /\ ga.flag
    /\ GAMatchSet # {}
    /\ GAFirst > 1
    /\ GAFirst < Len(ga.args)
    /\ LooksLikeFlag(ga.args[GAFirst + 1], ga.prefix)
    /\ ga.value = tTrue
    /\ Len(ga.rest) = Len(ga.args) - 1

----------------------------------------------------------------------------
(* A harness that builds a choice table with Add and calls Convert once    *)

MaxChoices == 3

kApple  == <<"a","p","p","l","e">>
kBlue   == <<"B","-","l","u","e">>
kBanana == <<"b","a","n","a","n","a">>
kBa     == <<"b","a">>

CVPairs == {<<kApple, <<"1">>>>, <<kBlue, <<"2">>>>, <<kBanana, <<"3">>>>, <<kBa, <<"4">>>>}

CVInputs == {sEmpty, <<"A">>, <<"b">>, <<"b","a">>, <<"B","A","N">>, <<"b","l","u","e">>,
             <<"-">>, <<"x">>, <<"b","-","L">>}

InitConvert ==
    /\ \E input \in CVInputs :
          cv = [phase |-> "build", pc |-> NoChoices, added |-> 0, input |-> input,
                value |-> sEmpty, err |-> ErrNone]
    /\ ga = GAIdle
    /\ cap = CapIdle

\* pc.Add(input, value), as FromTag does for every declared pair
CallAdd ==
    /\ cv.phase = "build"
    /\ cv.added < MaxChoices
    /\ \E pair \in CVPairs :
          cv' = [cv EXCEPT !.pc = Add(cv.pc, pair[1], pair[2]), !.added = cv.added + 1]
    /\ UNCHANGED <<ga, cap>>

\* converted, err := pc.Convert(input)
CallConvert ==
    /\ cv.phase = "build"
    /\ LET r == Convert(cv.pc, cv.input)
       IN  cv' = [cv EXCEPT !.phase = "out", !.value = r.value, !.err = r.err]
    /\ UNCHANGED <<ga, cap>>

NextConvert == CallAdd \/ CallConvert

SpecConvert == InitConvert /\ [][NextConvert]_vars

----------------------------------------------------------------------------
(* Properties of PromptChoices.Convert                                     *)

CVKey == Normalize(cv.input)

\* the declared keys whose normalized form has the normalized input as a prefix
CVPrefixKeys == {k \in DOMAIN cv.pc : HasPrefix(Normalize(k), CVKey)}

\* C8: Convert returns the value of the key that equals the normalized input
\* when there is one; with no exact match and zero or several keys having the
\* normalized input as a prefix it returns ErrInvalidConversion; an empty
\* table returns the input unchanged and no error.
C8_ExactElseAmbiguousIsError ==
    cv.phase = "out" =>
        /\ (DOMAIN cv.pc # {} /\ CVKey \in DOMAIN cv.pc) =>
              (cv.err = ErrNone /\ cv.value = cv.pc[CVKey].Value)
        /\ (DOMAIN cv.pc # {} /\ CVKey \notin DOMAIN cv.pc
               /\ Cardinality(CVPrefixKeys) # 1) =>
              cv.err = ErrInvalidConversion
        /\ DOMAIN cv.pc = {} => (cv.err = ErrNone /\ cv.value = cv.input)

\* C8 witness: an ambiguous prefix ("b" against blue, banana, ba) was refused
C8_Witness ==
    /\ cv.phase = "out"
    /\ CVKey \notin DOMAIN cv.pc
    /\ Cardinality(CVPrefixKeys) > 1
    /\ cv.err = ErrInvalidConversion

\* C9 as claimed: for a non-empty table, with no exact match and exactly one
\* key having the normalized input as a prefix, Convert returns that key's value.
C9_UniquePrefixConverts ==
    (cv.phase = "out" /\ DOMAIN cv.pc # {} /\ CVKey \notin DOMAIN cv.pc
        /\ Cardinality(CVPrefixKeys) = 1) =>
        (cv.err = ErrNone /\ \A k \in CVPrefixKeys : cv.value = cv.pc[k].Value)

\* C9 as amended: the same, for an input whose normalized form is not empty.
C9_UniquePrefixConvertsNonEmpty ==
    (cv.phase = "out" /\ DOMAIN cv.pc # {} /\ CVKey \notin DOMAIN cv.pc
        /\ Len(CVKey) > 0 /\ Cardinality(CVPrefixKeys) = 1) =>
        (cv.err = ErrNone /\ \A k \in CVPrefixKeys : cv.value = cv.pc[k].Value)

\* C9 witness: "BAN" resolved to banana's value in a table of several keys
C9_Witness ==
    /\ cv.phase = "out"
    /\ Cardinality(DOMAIN cv.pc) > 1
    /\ CVKey \notin DOMAIN cv.pc
    /\ Len(CVKey) > 0
    /\ Cardinality(CVPrefixKeys) = 1
    /\ cv.err = ErrNone
    /\ cv.value = <<"3">>

----------------------------------------------------------------------------
(* A harness that captures bounded records from bounded arguments,         *)
(* environments and prompt answers                                         *)

MaxProps == 2

\* the declarations records are made of (Msg is the Message field of README's Echo)
fName    == [Name |-> <<"N","a","m","e">>, Type |-> TString, tags |-> ("min" :> <<"2">>)]
fAge     == [Name |-> <<"A","g","e">>, Type |-> TIntPtr, tags |-> <<>>]
fMessage == [Name |-> <<"M","e","s","s","a","g","e">>, Type |-> TString,
             tags |-> ("default" :> <<"H","i">>) @@ ("min" :> <<"2">>)
                      @@ ("env" :> <<"E","M",",","E","N">>) @@ ("arg" :> <<"m","s","g">>)
                      @@ ("help" :> <<"H">>)]
fColor   == [Name |-> <<"C","o","l","o","r">>, Type |-> TString,
             tags |-> ("options" :> <<"r","e","d",":","1",",","b","l","u","e",":","2">>)
                      @@ ("default" :> <<"r","e","d">>)]
fCount   == [Name |-> <<"C","o","u","n","t">>, Type |-> TInt,
             tags |-> ("default" :> <<"7">>) @@ ("max" :> <<"5">>)
                      @@ ("prompt-options" :> <<"t","r","i","e","s",":","1">>)]
fPort    == [Name |-> <<"P","o","r","t">>, Type |-> TInt, tags |-> ("default" :> sX)]
fVerbose == [Name |-> <<"V","e","r","b","o","s","e">>, Type |-> TBool, tags |-> <<>>]
fDone    == [Name |-> <<"D","o","n","e">>, Type |-> TChan, tags |-> ("min" :> <<"1">>)]

Catalogue == {fName, fAge, fMessage, fColor, fCount, fPort, fVerbose, fDone}

\* the records: up to MaxProps distinct declarations, in any order
Records ==
    {rec \in SeqsUpTo(Catalogue, MaxProps) :
        rec # <<>> /\ \A i, j \in DOMAIN rec : i # j => rec[i] # rec[j]}

\* the value tokens tried after the argument of a field
ArgValues(f) ==
    IF HasTag(f, "options") THEN {<<"r">>, sX}
    ELSE CASE f.Type.kind = "string" -> {<<"A">>, <<"A","l">>, sEmpty}
           [] f.Type.kind = "int"    -> {<<"9">>, sX}
           [] f.Type.kind = "bool"   -> {tFalse, tTrue}
           [] OTHER                  -> {sX}

\* the token that names the argument of a field
ArgToken(f) == pDashes \o ToLower(getStructProperty(f).Arg)

\* what a command line can say about one field: nothing, the bare argument, or
\* the argument with a value token
Snippets(f) ==
    {<<>>, <<ArgToken(f)>>} \cup {<<ArgToken(f), v>> : v \in ArgValues(f)}

RECURSIVE ArgLists(_)
ArgLists(rec) ==
    IF rec = <<>> THEN {<<>>}
    ELSE {s \o rest : s \in Snippets(Head(rec)), rest \in ArgLists(Tail(rec))}

Reverse(s) == [i \in DOMAIN s |-> s[Len(s) + 1 - i]]

NoEnv == <<>>

\* the environments: each variable of the env tag is unset (or empty) or set
Envs(rec) ==
    IF \E i \in DOMAIN rec : HasTag(rec[i], "env")
    THEN {NoEnv, (<<"E","N">> :> <<"Y","o">>),
          (<<"E","M">> :> <<"H","e","y">>) @@ (<<"E","N">> :> <<"Y","o">>),
          (<<"E","M">> :> <<>>) @@ (<<"E","N">> :> <<"Y","o">>)}
    ELSE {NoEnv}

\* a value a field can hold before capture starts, as an import leaves it
Preset(t) ==
    CASE t.kind = "string" -> StrValue(<<"Z","e","d">>)
      [] t.kind = "int"    -> IntValue(3)
      [] t.kind = "bool"   -> BoolValue(TRUE)
      [] OTHER             -> ZeroValue(t)

\* the lines a user can answer a prompt with
Answers ==
    {<<"\n">>, <<"A","l","\n">>, <<"9","\n">>, QuitPrompt \o <<"\n">>,
     HelpPrompt \o <<"\n">>}

\* the state before Capture: the record's fields hold values0, nothing is flagged
CaptureStart(phase, rec, values0, args, env, in, caps, registry) ==
    [phase |-> phase, i |-> 0, fields |-> rec, props |-> <<>>,
     values |-> values0, values0 |-> values0,
     flags |-> [k \in DOMAIN rec |-> {}],
     args |-> args, args0 |-> args, argPrefix |-> pDashes, ctx |-> NoContext,
     env |-> env,
     in |-> in, answers |-> IF in THEN Answers ELSE {},
     DisablePrompt |-> FALSE, ForcePrompt |-> FALSE,
     caps |-> caps, pr |-> PrIdle, prompted |-> {}, quitAt |-> 0, trace |-> <<>>,
     ct |-> CtIdle, depth |-> 0, parent |-> <<>>, round |-> 1, first |-> <<>>,
     hist |-> [subflags |-> {}, discardAt |-> "none", verifyRead |-> <<>>,
               custom |-> FALSE, executed |-> FALSE,
               names |-> <<>>, read |-> 0, peeked |-> FALSE, given |-> args,
               before |-> [argPrefix |-> <<>>, ctx |-> NoContext]],
     err |-> NoError, viaRegistry |-> DOMAIN registry # {}, registry |-> registry,
     interactive |-> TRUE, deferred |-> FALSE]

\* GetInstance(&record).Capture(opts) with opts.WithArgs(args), with or without files
Init ==
    /\ ga = GAIdle
    /\ cv = CVIdle
    /\ \E rec \in Records, in \in BOOLEAN,
          caps \in {{}, {"Dynamic", "Validator"}} :
       \E args \in ArgLists(rec) \cup ArgLists(Reverse(rec)), env \in Envs(rec),
          values0 \in {[k \in DOMAIN rec |-> ZeroValue(rec[k].Type)]} \cup
                      {[k \in DOMAIN rec |-> Preset(rec[k].Type)] : x \in {caps} \ {{}}} :
          cap = CaptureStart("new", rec, values0, args, env, in, caps, <<>>)

Next ==
    \/ GetInstance
    \/ CaptureBegin
    \/ StepLoad
    \/ StepFromArgs
    \/ StepPrompt
    \/ PromptAnswer
    \/ StepValidate
    \/ StepUpdate
    \/ CaptureFinish

Spec == Init /\ [][Next]_vars

\* the command lines given to the registry of echo and exit: none, help, or a
\* command name, what it says about interactive, and the arguments of the fields
InteractiveSnippets ==
    {<<>>, <<pDashes \o sInteractive>>, <<pDashes \o sInteractive, tFalse>>,
     <<pDashes \o sInteractive, <<"F","a","l","s","e">> >>}

RegistryArgs(rec) ==
    {<<>>, <<pDashes \o sHelp>>, <<sTool>>, <<pDashes \o sHelp, sTool, sEcho>>}
        \cup {<<cmd>> \o inter \o rest :
                cmd \in {sEcho, <<"e">>}, inter \in InteractiveSnippets,
                rest \in ArgLists(rec)}
        \cup {<<sTool, sEcho>> \o rest : rest \in ArgLists(rec)}

\* registry.Capture(opts) with opts.Program(): echo is the record, exit has no fields
InitRegistry ==
    /\ ga = GAIdle
    /\ cv = CVIdle
    /\ \E rec \in Records, caps \in {{}, {"Validator", "Executable"}} :
       \E args \in RegistryArgs(rec) :
          cap = CaptureStart("registry", rec, [k \in DOMAIN rec |-> ZeroValue(rec[k].Type)],
                             args, NoEnv, TRUE, caps,
                             (sEcho :> EntryOf(rec)) @@ (sExit :> EntryOf(<<>>))
                                 @@ (sTool :> GroupOf(sEcho :> EntryOf(rec))))

NextRegistry ==
    \/ RegistryCapture
    \/ Next
    \/ RegistryReturn
    \/ RegistryExecute

SpecRegistry == InitRegistry /\ [][NextRegistry]_vars

\* registry.Peek(opts) and then registry.Capture(opts) with the same options
NextPeek ==
    \/ RegistryPeek
    \/ NextRegistry

SpecPeek == InitRegistry /\ [][NextPeek]_vars

----------------------------------------------------------------------------
(* A harness that captures records with a container field (a list, a map,  *)
(* an array, a nested record) from bounded arguments and prompt answers,   *)
(* and captures the result a second time from the same arguments           *)

fCity  == [Name |-> <<"C","i","t","y">>, Type |-> TString,
           tags |-> ("default" :> <<"X">>) @@ ("env" :> <<"E","M">>)]
fZip   == [Name |-> <<"Z","i","p">>, Type |-> TInt, tags |-> <<>>]

fTags  == [Name |-> <<"T","a","g","s">>, Type |-> TSlice(TString), tags |-> <<>>]
fNeed  == [Name |-> <<"N","e","e","d">>, Type |-> TSlice(TString),
           tags |-> ("min" :> <<"1">>)]
fPairs == [Name |-> <<"P","a","i","r","s">>, Type |-> TMap(TString, TInt), tags |-> <<>>]
fGrid  == [Name |-> <<"G","r","i","d">>, Type |-> TArray(2, TInt),
           tags |-> ("prompt-options" :> <<"s","t","a","r","t",":","-">>)]
fHome  == [Name |-> <<"H","o","m","e">>, Type |-> TStruct(<<fCity, fZip>>),
           tags |-> ("prompt-options" :> <<"s","t","a","r","t",":","-">>)]
fAddr  == [Name |-> <<"A","d","d","r">>, Type |-> TStructPtr(<<fCity, fZip>>),
           tags |-> <<>>]

\* a number chosen by name and typed twice
fPin   == [Name |-> <<"P","i","n">>, Type |-> TInt,
           tags |-> ("options" :> <<"n",":","1">>)
                    @@ ("prompt-options" :> <<"v","e","r","i","f","y",",",
                                              "t","r","i","e","s",":","1">>)]

\* a list and a map that declare max:"1"; the map gives start with no value
fTop   == [Name |-> <<"T","o","p">>, Type |-> TSlice(TString), tags |-> ("max" :> <<"1">>)]
fCaps  == [Name |-> <<"C","a","p","s">>, Type |-> TMap(TString, TInt),
           tags |-> ("max" :> <<"1">>)
                    @@ ("prompt-options" :> <<"s","t","a","r","t",":">>)]

\* the fields of ArgValueCommand and PromptValueCommand
fSimple == [Name |-> <<"S","i","m","p","l","e">>, Type |-> TArgValueSimple, tags |-> <<>>]
fAsk    == [Name |-> <<"A","s","k">>, Type |-> TPromptValueSimple, tags |-> <<>>]

\* a list that is declared not to be prompted
fQuiet == [Name |-> <<"Q","u","i","e","t">>, Type |-> TSlice(TString),
           tags |-> ("prompt" :> sDash)]

\* a list that declares min:"2"
fBoth  == [Name |-> <<"B","o","t","h">>, Type |-> TSlice(TString),
           tags |-> ("min" :> <<"2">>)]

\* a map that declares min:"3"
fTrio  == [Name |-> <<"T","r","i","o">>, Type |-> TMap(TString, TInt),
           tags |-> ("min" :> <<"3">>)]

\* a text that is declared not to come from the arguments
fKeep  == [Name |-> <<"K","e","e","p">>, Type |-> TString, tags |-> ("arg" :> sDash)]

\* a list of records of one field
fProp  == [Name |-> <<"P","r","o","p">>, Type |-> TString, tags |-> <<>>]
fRows  == [Name |-> <<"R","o","w","s">>, Type |-> TSlice(TStruct(<<fProp>>)),
           tags |-> <<>>]

\* a list that declares reprompt and max:"2"
fAgain == [Name |-> <<"A","g","a","i","n">>, Type |-> TSlice(TString),
           tags |-> ("max" :> <<"2">>)
                    @@ ("prompt-options" :> <<"r","e","p","r","o","m","p","t">>)]

\* a map that declares min:"2"
fDuo   == [Name |-> <<"D","u","o">>, Type |-> TMap(TString, TInt),
           tags |-> ("min" :> <<"2">>)]

ContainerCatalogue ==
    {fTags, fNeed, fPairs, fGrid, fHome, fAddr, fName, fMessage, fPin, fTop, fCaps, fDuo,
     fSimple, fAsk, fAgain, fRows, fKeep, fTrio, fBoth, fQuiet}

\* the command lines tried for a field
\* the argument name of another property of the record
tOther == <<"-","-","o","t","h","e","r">>

ContainerArgs(f) ==
    LET name == pDashes \o ToLower(getStructProperty(f).Arg)
    IN  CASE f.Type.kind = "slice" /\ f.Type.elem.kind = "struct" ->
                {<<>>, <<name \o <<"-","1","-","p","r","o","p">>, <<"a">> >>,
                 <<name \o <<"-","2","-","p","r","o","p">>, <<"b">> >>,
                 <<name \o <<"-","1","-","p","r","o","p">>, <<"a">>,
                   name \o <<"-","2","-","p","r","o","p">>, <<"b">> >>}
          [] f.Type.kind = "slice" ->
                {<<>>, <<name, <<"a">> >>, <<name, <<"a">>, name, <<"b">> >>,
                 <<name, tOther>>}
          [] f.Type.kind = "map" ->
                {<<>>, <<name \o <<"-","k","e","y">>, <<"a">>,
                         name \o <<"-","v","a","l","u","e">>, <<"1">> >>,
                 <<name \o <<"-","k","e","y">>, <<"a">> >>}
          [] f.Type.kind = "array" ->
                {<<>>, <<name \o <<"-","1">>, <<"1">> >>, <<name \o <<"-","2">>, <<"2">> >>,
                 <<name \o <<"-","2">>, <<"2">>, name \o <<"-","1">>, <<"1">> >>,
                 <<name \o <<"-","2">>, sX>>}
          [] f.Type.kind = "struct" ->
                {<<>>, <<name \o <<"-","c","i","t","y">>, <<"A">> >>,
                 <<name \o <<"-","c","i","t","y">>, tOther>>,
                 <<name \o <<"-","z","i","p">>, <<"9">> >>}
          [] HasArgValue(getStructProperty(f)) ->
                {<<>>, <<pDash \o ToLower(f.Name), sX>>}
          [] OTHER -> {<<>>, <<name, <<"A","l">> >>}

\* the values a field can hold before capture: zero; a list that is prompted
\* again also one or two elements, when prompting is on
ContainerPresets(f, prompting) ==
    {ZeroValue(f.Type)} \cup
        IF getStructProperty(f).Reprompt /\ prompting
        THEN {[nil |-> FALSE, items |-> <<StrValue(<<"a">>)>>],
              [nil |-> FALSE, items |-> <<StrValue(<<"a">>), StrValue(<<"b">>)>>]}
        ELSE {}

\* the lines a user can answer with: yes or an empty text, yes or a number, no
\* or a text, discard, quit
ContainerAnswers ==
    {<<"\n">>, <<"1","\n">>, <<"n","\n">>, DiscardPrompt \o <<"\n">>,
     QuitPrompt \o <<"\n">>}

\* GetInstance(&record).Capture(opts) for a record of one field, with or
\* without an input file, and with prompting disabled on the options
InitContainers ==
    /\ ga = GAIdle
    /\ cv = CVIdle
    /\ \E f \in ContainerCatalogue, in \in BOOLEAN :
       \E args \in ContainerArgs(f), env \in {NoEnv, (<<"E","M">> :> <<"H","e","y">>)},
          disable \in {FALSE, in} :
       \E value0 \in ContainerPresets(f, in /\ ~disable) :
          cap = [CaptureStart("new", <<f>>, <<value0>>, args, env, in, {}, <<>>)
                    EXCEPT !.answers = IF in THEN ContainerAnswers ELSE {},
                           !.DisablePrompt = disable]

\* Capture returned no error with prompting off: the record it produced is
\* captured again, by a new instance, from the same arguments
Recapture ==
    /\ cap.phase = "returned" /\ cap.depth = 0 /\ cap.err = NoError
    /\ cap.round = 1 /\ ~cap.in /\ ~OptsCanPrompt(cap)
    /\ cap' = [CaptureStart("new", cap.fields, cap.values, cap.args0, cap.env, cap.in,
                            cap.caps, <<>>)
                  EXCEPT !.round = 2, !.first = cap.values, !.answers = cap.answers,
                         !.DisablePrompt = cap.DisablePrompt]
    /\ UNCHANGED <<ga, cv>>

NextContainers ==
    \/ Next
    \/ StepFromArgsPromptCustom
    \/ StepFromArgsContainer
    \/ QuestionAnswer
    \/ SubReturn
    \/ Recapture

SpecContainers == InitContainers /\ [][NextContainers]_vars

\* the captures of those records without an input file: nothing is asked
InitNoPrompt == InitContainers /\ ~OptsCanPrompt(cap)

NextNoPrompt ==
    \/ GetInstance
    \/ CaptureBegin
    \/ StepLoad
    \/ StepFromArgs
    \/ StepFromArgsPromptCustom
    \/ StepFromArgsContainer
    \/ StepPrompt
    \/ StepValidate
    \/ StepUpdate
    \/ CaptureFinish
    \/ SubReturn
    \/ Recapture

\* Capture of the record returned, or panicked
CaptureOver == cap.depth = 0 /\ cap.phase \in {"returned", "panic"}

\* a step of NextNoPrompt is possible: Capture is running, or the record it
\* returned can be captured again
Running ==
    \/ ~CaptureOver
    \/ cap.phase = "returned" /\ cap.err = NoError /\ cap.round = 1 /\ ~cap.in

\* the capture runs in one goroutine, which takes its next step whenever it
\* has one: weak fairness of the steps. For the whole of NextNoPrompt it is
\* written out, with ENABLED <<NextNoPrompt>>_vars as the state predicate
\* Running
SpecNoPrompt ==
    /\ InitNoPrompt /\ [][NextNoPrompt]_vars
    /\ WF_vars(CaptureBegin)
    /\ WF_vars(StepLoad)
    /\ ([]<>(~Running) \/ []<><<NextNoPrompt>>_vars)

----------------------------------------------------------------------------
(* Properties of Instance.Capture                                          *)

Returned == cap.phase = "returned"

Succeeded == Returned /\ cap.err = NoError

\* the properties whose Validate was called and whose value is below the
\* declared min or above the declared max
MinMaxViolators ==
    {k \in DOMAIN cap.props :
        /\ <<"validate", k>> \in Range(cap.trace)
        /\ ValidateChecks(cap.props[k], cap.values[k]).kind \in {ErrMin, ErrMax}}

\* C1: Capture returns a validation error naming the property whenever a
\* property's final value violates its declared min or max.
C1_MinMaxViolationIsReported ==
    (Returned /\ MinMaxViolators # {}) =>
        \E k \in MinMaxViolators :
            cap.err = ValidateChecks(cap.props[k], cap.values[k])

\* the value token of the explicit argument of property k in the arguments
\* given: the token after the first token that names the property, when that
\* token is a value (empty when there is no such argument)
ExplicitArgs(k) ==
    LET normal == Normalize(cap.props[k].Arg)
        named  == {i \in 1..Len(cap.args0) :
                      ArgMatches(cap.args0[i], normal, cap.argPrefix)}
    IN  {cap.args0[i + 1] : i \in {j \in named :
            /\ \A h \in named : j <= h
            /\ j + 1 <= Len(cap.args0)
            /\ ~LooksLikeFlag(cap.args0[j + 1], cap.argPrefix)}}

\* C2 as stated: for every scalar field, whenever the argument list contains an
\* explicit argument for the field, the field's value after capture is that
\* argument's value, whatever default or environment value the field has.
C2_ArgumentValueWins ==
    Succeeded =>
        \A k \in DOMAIN cap.props : \A v \in ExplicitArgs(k) :
            (IsSimple(cap.props[k]) /\ ParseType(Elem(cap.props[k].Type), v).err = ErrNone)
                => cap.values[k] = ParseType(Elem(cap.props[k].Type), v).val

\* C2 amended: when capture returns no error and the explicit argument of a
\* scalar field has a non-empty value token, the field ends at that value
\* converted through the field's choice table and then to its type, whatever
\* default or environment value it has, unless a prompt answer replaced it.
C2_ArgumentValueWinsUnlessPrompted ==
    Succeeded =>
        \A k \in DOMAIN cap.props : \A v \in ExplicitArgs(k) :
            (IsSimple(cap.props[k]) /\ v # <<>> /\ FlagPrompt \notin cap.flags[k])
                => /\ cap.values[k] =
                        PropSet(cap.props[k], ZeroValue(cap.props[k].Type), {}, v,
                                FlagArgs).value
                   /\ FlagArgs \in cap.flags[k]

\* an argument replaced the value loaded from the environment
C2_Witness ==
    /\ Succeeded
    /\ \E k \in DOMAIN cap.props :
          /\ {FlagEnv, FlagArgs} \subseteq cap.flags[k]
          /\ FlagPrompt \notin cap.flags[k]
          /\ ExplicitArgs(k) = {<<"A","l">>}
          /\ cap.values[k] = StrValue(<<"A","l">>)

\* C4: if the answer to a single-value prompt equals the quit token, capture
\* returns the quit error and no property declared after the prompted one is
\* loaded, read from arguments, prompted or modified.
C4_QuitStopsCapture ==
    cap.phase \in {"returned", "load", "args", "prompt", "validate", "update", "finish"}
    /\ cap.quitAt # 0 =>
        /\ Returned
        /\ cap.err = Error(ErrQuit)
        /\ \A k \in DOMAIN cap.props :
              k > cap.quitAt =>
                 /\ cap.values[k] = cap.values0[k]
                 /\ cap.flags[k] = {}
                 /\ k \notin cap.prompted
                 /\ \A e \in Range(cap.trace) : e[2] # k

\* quit was answered at the first of two properties, after arguments for both
C4_Witness ==
    /\ Returned
    /\ cap.quitAt = 1
    /\ Len(cap.props) = 2
    /\ cap.args0 # <<>>
    /\ cap.err = Error(ErrQuit)

IsPrefix(a, b) == Len(a) <= Len(b) /\ a = SubSeq(b, 1, Len(a))

\* the calls of a capture that runs to its end, in the order C5 states
RECURSIVE ExpectedFrom(_)
ExpectedFrom(k) ==
    IF k > Len(cap.fields)
    THEN IF "Validator" \in cap.caps THEN << <<"validator", k>> >> ELSE <<>>
    ELSE << <<"load", k>>, <<"args", k>>, <<"prompt", k>>, <<"validate", k>> >>
         \o (IF "Dynamic" \in cap.caps THEN << <<"update", k>> >> ELSE <<>>)
         \o ExpectedFrom(k + 1)

ExpectedTrace ==
    (IF "Dynamic" \in cap.caps THEN << <<"update", 0>> >> ELSE <<>>) \o ExpectedFrom(1)

\* C5: Capture processes properties in declaration order, running for each
\* Load, FromArgs, Prompt, Validate, then Update(property) before the next
\* property starts; Update(nil) runs once before the first property and the
\* whole-record Validate once after the last.
C5_StagesInOrder ==
    cap.phase # "idle" =>
        /\ IsPrefix(cap.trace, ExpectedTrace)
        /\ Succeeded => cap.trace = ExpectedTrace

\* a capture of two properties of a Dynamic Validator ran to its end
C5_Witness ==
    /\ Succeeded
    /\ cap.caps = {"Dynamic", "Validator"}
    /\ Len(cap.props) = 2
    /\ Len(cap.trace) = 12

\* the captures C10 is about: scalar fields only, no arguments, no environment
\* values, no prompting
OnlyDefaults ==
    /\ Returned
    /\ \A k \in DOMAIN cap.props : cap.values0[k] = ZeroValue(cap.props[k].Type)
    /\ cap.args0 = <<>>
    /\ cap.env = NoEnv
    /\ ~OptsCanPrompt(cap)
    /\ \A k \in DOMAIN cap.props : IsSimple(cap.props[k])

\* the declared default of property k converted through the property's choice
\* table, when it has one, and then to the property's type
DefaultSet(k) ==
    LET prop   == cap.props[k]
        text   == IF HasChoices(prop.Choices) THEN Convert(prop.Choices, prop.Default)
                  ELSE [value |-> prop.Default, err |-> ErrNone]
        parsed == ParseType(Elem(prop.Type), text.value)
    IN  [err   |-> IF text.err # ErrNone THEN text.err ELSE parsed.err,
         value |-> parsed.val]

\* C10 as stated: captured with no arguments, environment values or prompting,
\* every scalar field ends at its zero value except fields with a declared
\* default, which end equal to that default converted to the field's type.
C10_ZeroOrDefault ==
    (OnlyDefaults /\ cap.err = NoError) =>
        \A k \in DOMAIN cap.props :
            cap.values[k] =
                IF cap.props[k].Default = <<>> THEN ZeroValue(cap.props[k].Type)
                ELSE SetString(cap.props[k].Type, ZeroValue(cap.props[k].Type),
                               cap.props[k].Default).val

\* C10 amended: a field without a default ends at zero; when capture returns no
\* error a field with a default ends equal to the default converted through the
\* field's choice table and then to its type; a default that does not convert
\* makes capture return an error and leaves the field at zero.
C10_ZeroOrConvertedDefault ==
    OnlyDefaults =>
        \A k \in DOMAIN cap.props :
            /\ cap.props[k].Default = <<>> => cap.values[k] = ZeroValue(cap.props[k].Type)
            /\ (cap.props[k].Default # <<>> /\ cap.err = NoError)
                  => cap.values[k] = DefaultSet(k).value
            /\ (cap.props[k].Default # <<>> /\ DefaultSet(k).err # ErrNone)
                  => cap.err # NoError /\ cap.values[k] = ZeroValue(cap.props[k].Type)

\* a default was converted through the choice table: red became 1
C10_Witness ==
    /\ OnlyDefaults
    /\ cap.err = NoError
    /\ \E k \in DOMAIN cap.props :
          /\ HasChoices(cap.props[k].Choices)
          /\ cap.props[k].Default = <<"r","e","d">>
          /\ cap.values[k] = StrValue(<<"1">>)

----------------------------------------------------------------------------
(* Properties of Registry.Capture                                          *)

\* the command line says --interactive false
SaysInteractiveFalse ==
    \E i \in 1..(Len(cap.args0) - 1) :
        /\ cap.args0[i] = pDashes \o sInteractive
        /\ cap.args0[i + 1] = tFalse

\* C3: passing "--interactive false" to Registry.Capture disables prompting
\* for that capture: no prompt is issued for any property.
C3_InteractiveFalseNeverPrompts ==
    (cap.phase # "idle" /\ SaysInteractiveFalse) => cap.prompted = {}


----------------------------------------------------------------------------
(* Properties of Property.Load                                             *)

\* Load of the property cap.i has just returned without error, and the field
\* was zero when capture started
JustLoaded ==
    /\ cap.phase = "args"
    /\ cap.values0[cap.i] = ZeroValue(Prop(cap).Type)
    /\ IsSimple(Prop(cap)) /\ ~IsIgnored(Prop(cap))

\* the positions in the env tag of the variables that are set to a non-empty text
NonEmptyEnv(c) ==
    {j \in DOMAIN Prop(c).Env : Getenv(c.env, Prop(c).Env[j]) # <<>>}

\* the first of them in declared order
FirstNonEmptyEnv(c) ==
    CHOOSE j \in NonEmptyEnv(c) : \A h \in NonEmptyEnv(c) : j <= h

\* C11: the environment variables named for a field are consulted in declared
\* order and the first non-empty one supplies the loaded value (flagged Env);
\* the declared default is used (flagged Default) only when none of them is
\* non-empty; with neither the field stays zero and unflagged.
C11_FirstNonEmptyEnvElseDefault ==
    JustLoaded =>
        IF NonEmptyEnv(cap) # {}
        THEN /\ Value(cap) = SetString(Prop(cap).Type, ZeroValue(Prop(cap).Type),
                                 Getenv(cap.env, Prop(cap).Env[FirstNonEmptyEnv(cap)])).val
             /\ Flags(cap) = {FlagEnv}
        ELSE IF Prop(cap).Default # <<>>
        THEN Value(cap) = DefaultSet(cap.i).value /\ Flags(cap) = {FlagDefault}
        ELSE Value(cap) = ZeroValue(Prop(cap).Type) /\ Flags(cap) = {}

\* the first variable of the env tag is set but empty, the second supplies the
\* value although the field declares a default
C11_Witness ==
    /\ JustLoaded
    /\ Len(Prop(cap).Env) = 2 /\ Prop(cap).Default # <<>>
    /\ Prop(cap).Env[1] \in DOMAIN cap.env /\ NonEmptyEnv(cap) = {2}
    /\ Value(cap) = StrValue(Getenv(cap.env, Prop(cap).Env[2]))
    /\ Flags(cap) = {FlagEnv}


\* the fields that held a non-zero value when capture started
PresetFields == {k \in DOMAIN cap.props : cap.values0[k] # ZeroValue(cap.props[k].Type)}

\* the values a prompt answer can give property k
AnswerValues(k) ==
    {PropSet(cap.props[k], ZeroValue(cap.props[k].Type), {}, TrimRightNL(raw),
             FlagPrompt).value : raw \in cap.answers}

\* C12: environment/default loading never overwrites a field that is non-zero
\* when capture starts: Load leaves its value and flags alone and the field is
\* never flagged Env or Default; an explicit argument (when no prompt answer
\* follows) or a prompt answer still replaces the initial value, and nothing
\* else changes it.
C12_LoadKeepsInitialValue ==
    \A k \in PresetFields :
        /\ cap.flags[k] \cap {FlagEnv, FlagDefault} = {}
        /\ (cap.phase = "args" /\ cap.i = k) =>
                cap.values[k] = cap.values0[k] /\ cap.flags[k] = {}
        /\ cap.values[k] # cap.values0[k] => cap.flags[k] \cap {FlagArgs, FlagPrompt} # {}
        /\ FlagPrompt \in cap.flags[k] => cap.values[k] \in AnswerValues(k)
        /\ (Succeeded /\ FlagPrompt \notin cap.flags[k]) =>
                \A v \in ExplicitArgs(k) :
                    v # <<>> => cap.values[k] =
                        PropSet(cap.props[k], ZeroValue(cap.props[k].Type), {}, v,
                                FlagArgs).value

\* a field with a declared default held a value at the start, kept it through
\* Load, and a prompt answer then replaced it
C12_Witness ==
    /\ Succeeded
    /\ \E k \in PresetFields :
          /\ cap.props[k].Default # <<>> /\ cap.props[k].Env # <<>>
          /\ NonEmptyEnv([cap EXCEPT !.i = k]) # {}
          /\ cap.flags[k] = {FlagPrompt}
          /\ cap.values[k] = StrValue(<<"A","l">>)
          /\ cap.values[k] # cap.values0[k]


----------------------------------------------------------------------------
(* Properties of Options.Prompt                                            *)

\* Options.Prompt is waiting for a line of input
Prompting == cap.phase = "prompt" /\ cap.pr.wait # "none"

\* the number of the attempt Options.Prompt is in, counted from one
Attempt == cap.pr.i + 1

C19_HelpRereadsOnce ==
    [][ /\ (cap'.phase = "prompt" /\ cap'.pr.wait = "afterhelp") =>
              /\ Prompting /\ cap.pr.wait = "value" /\ Prop(cap).Help # <<>>
              /\ cap' = [cap EXCEPT !.pr.wait = "afterhelp"]
        /\ (Prompting /\ cap.pr.wait = "value" /\ Prop(cap).Help # <<>>) =>
              cap' # PromptProcess(cap, HelpPrompt)
        /\ (Prompting /\ cap.pr.wait = "afterhelp") =>
              \E raw \in cap.answers :
                  IF PromptOnce(raw).err # ErrNone
                  THEN cap'.phase = "returned" /\ cap'.err = Error(PromptOnce(raw).err)
                  ELSE cap' = PromptProcess(cap, PromptOnce(raw).input)
      ]_vars

\* help was requested twice in one attempt of a text property with help text:
\* the second request became the property's value
C19_Witness ==
    \E k \in DOMAIN cap.props :
        /\ cap.props[k].Help # <<>>
        /\ cap.values[k] = StrValue(HelpPrompt)
        /\ FlagPrompt \in cap.flags[k]


\* an attempt of Options.Prompt reads the empty line
ReadsEmpty ==
    /\ Prompting /\ cap.pr.wait \in {"value", "afterhelp"}
    /\ cap' = PromptRead(cap, <<"\n">>)

\* the empty input was returned as "no value": the prompt ends, the field and
\* its flags are as before
NoValueReturned ==
    /\ cap'.phase = "validate" /\ cap'.pr = PrIdle
    /\ cap'.values = cap.values /\ cap'.flags = cap.flags

\* the attempt was counted as an invalid format: the next try starts, or the
\* tries are used up and the prompt fails with the conversion's error
InvalidFormatCounted ==
    \/ /\ cap'.phase = "prompt" /\ cap'.pr.wait = "value"
       /\ cap'.pr.i = cap.pr.i + 1
       /\ cap'.pr.InvalidFormat = cap.pr.InvalidFormat + 1
       /\ cap'.values = cap.values /\ cap'.flags = cap.flags
    \/ /\ cap.pr.i = cap.pr.tries
       /\ cap'.phase = "returned" /\ cap'.err = Error(ErrParse)

\* C20 as stated: empty input with optional=true returns "no value" and leaves
\* the field alone; empty input with optional=false is counted as an
\* invalid-format outcome and continues to the next try, for every target type.
C20_EmptyInputIsInvalidFormat ==
    [][ ReadsEmpty =>
            IF cap.pr.optional THEN NoValueReturned ELSE InvalidFormatCounted ]_vars

\* C20 amended: with optional=false the empty input is converted like any
\* other input; for a property without regex or choices it is an
\* invalid-format outcome when the target type's conversion rejects the empty
\* text (numbers, booleans), and a text target accepts it as the empty value.
C20_EmptyInputIsConverted ==
    [][ ReadsEmpty =>
            IF cap.pr.optional THEN NoValueReturned
            ELSE (Prop(cap).Regex = <<>> /\ ~HasChoices(Prop(cap).Choices)) =>
                    IF Elem(Prop(cap).Type).kind = "string"
                    THEN /\ cap'.phase = "validate" /\ cap'.pr = PrIdle
                         /\ cap'.values[cap.i] = StrValue(<<>>)
                         /\ FlagPrompt \in cap'.flags[cap.i]
                    ELSE InvalidFormatCounted ]_vars

\* a text field that was zero and not optional was answered with the empty
\* line, and the prompt accepted it
C20_Witness ==
    \E k \in DOMAIN cap.props :
        /\ Elem(cap.props[k].Type).kind = "string"
        /\ cap.values0[k] = ZeroValue(cap.props[k].Type)
        /\ cap.flags[k] = {FlagPrompt}
        /\ cap.values[k] = StrValue(<<>>)


----------------------------------------------------------------------------
(* Properties of the capture of container fields                           *)

\* the Capture of the record itself (no sub-instance) returned
TopReturned == cap.phase = "returned" /\ cap.depth = 0

\* the record produced by a first capture was captured again from the same
\* arguments, without error
Recaptured == TopReturned /\ cap.round = 2 /\ cap.err = NoError

\* C16 as stated: re-running capture with the same argument list against the
\* record produced by a first capture yields field values identical to the
\* first result, for every field kind (scalar, record, list, array, map).
C16_RecaptureIsIdempotent ==
    Recaptured => cap.values = cap.first

\* the argument name composed of the prefix and the parts, joined by "-"
RECURSIVE Joined(_)
Joined(parts) ==
    IF Len(parts) = 1 THEN parts[1] ELSE parts[1] \o <<"-">> \o Joined(Tail(parts))

\* (the names match whatever their case: the tokens here are in lower case)
Composed(parts) == pDashes \o ToLower(Joined(parts))

\* the values the arguments given hold after the tokens equal to name, in order
RECURSIVE GivenFrom(_, _)
GivenFrom(name, i) ==
    IF i + 1 > Len(cap.args0) THEN <<>>
    ELSE IF cap.args0[i] = name THEN <<cap.args0[i + 1]>> \o GivenFrom(name, i + 2)
    ELSE GivenFrom(name, i + 1)

Given(name) == GivenFrom(name, 1)

\* the first capture of a record of one field returned no error, from
\* arguments alone
CapturedFromArgs ==
    /\ TopReturned /\ cap.round = 1 /\ cap.err = NoError
    /\ ~OptsCanPrompt(cap)
    /\ cap.values0[1] = ZeroValue(cap.props[1].Type)

FieldName(f) == ToLower(f.Name)

\* the value of type t the text converts to
Converted(t, text) == ParseType(Elem(t), text).val

\* the number of elements the second capture appends to list property k: all
\* it reads from the arguments (none when the prompt of the list is hidden), or
\* with max those up to the append after which the list holds max elements or
\* more
AppendedAgain(k) ==
    LET n    == IF cap.props[k].HidePrompt THEN 0
                ELSE Len(Given(Composed(<<cap.props[k].Arg>>)))
        room == cap.props[k].Max.v - Len(cap.first[k].items)
    IN  IF ~cap.props[k].Max.set \/ room >= n THEN n
        ELSE IF room > 1 THEN room
        ELSE IF n > 0 THEN 1 ELSE 0

\* C16 amended: the second capture leaves scalar, record, array and map fields
\* identical to the first result; a list of scalar elements is not: the
\* elements the capture reads from the arguments are appended to it a second
\* time, up to the append that reaches max.
C16_RecaptureIsIdempotentButLists ==
    Recaptured =>
        \A k \in DOMAIN cap.props :
            IF IsSlice(cap.props[k]) /\ TemplateIsSimple(cap.props[k].Type.elem)
            THEN cap.values[k].items =
                    cap.first[k].items \o
                        [i \in 1..AppendedAgain(k) |->
                            Converted(cap.props[k].Type.elem,
                                      Given(Composed(<<cap.props[k].Arg>>))[i])]
            ELSE cap.values[k] = cap.first[k]

\* a map an argument filled is the same after the second capture
C16_Witness ==
    /\ Recaptured
    /\ \E k \in DOMAIN cap.props :
          /\ IsMap(cap.props[k])
          /\ cap.first[k].keys = <<StrValue(<<"a">>)>>
          /\ cap.first[k].vals = <<IntValue(1)>>
          /\ cap.values[k] = cap.first[k]


\* the arguments given hold no token that names an element of list property k
NoElementArgs(k) ==
    \A i \in DOMAIN cap.args0 :
        ~ArgMatches(cap.args0[i], <<>>, ArgSlicePrefix(pDashes, cap.props[k], ArgStartIndex))

ElementDiscarded ==
    /\ cap.phase = "returned" /\ cap.depth > 0
    /\ cap.err.kind = ErrDiscard
    /\ cap.parent.ct.stage \in {"element", "key", "value"}

\* the container code of the capture that goes on after a sub-instance returned
ContainerAfter == IF cap'.depth > 0 THEN cap'.parent ELSE cap'

\* C13: a discard answer given while capturing a list element or a map key or
\* value aborts only that element: the element (pair) is not added, the
\* elements added earlier are kept, and capture continues with the continue
\* question or with the capture of the next element (key).
C13_DiscardDropsOnlyTheElement ==
    [][ ElementDiscarded =>
            /\ ContainerAfter.ct.items = cap.parent.ct.items
            /\ ContainerAfter.ct.keys = cap.parent.ct.keys
            /\ ContainerAfter.phase = "args"
            /\ ContainerAfter.values = cap.parent.values
            /\ IF cap'.depth > 0
               THEN cap'.phase = "begin" /\ ContainerAfter.ct.stage \in {"element", "key"}
               ELSE ContainerAfter.ct.stage = "more"
      ]_vars

\* a list element was discarded after another was added, and the list was
\* committed with the element added before
C13_Witness ==
    /\ TopReturned /\ cap.err = NoError
    /\ cap.hist.discardAt = "element"
    /\ \E k \in DOMAIN cap.props :
          IsSlice(cap.props[k]) /\ cap.values[k].items = <<StrValue(<<"1">>)>>

\* C14 as stated: at whatever prompt the discard signal is entered, the capture
\* call does not return it as its error.
C14_DiscardIsNeverReturned ==
    TopReturned => cap.err.kind # ErrDiscard

\* C14 amended: a discard signal entered at the prompt of a list element or of
\* a map key or value is not returned as the capture's error; entered at
\* another prompt (a scalar field of the record or of a nested record, an array
\* element, a start or continue question) it is what capture returns.
C14_ElementDiscardIsNotReturned ==
    [][ /\ ElementDiscarded => ~(cap'.phase = "returned" /\ cap'.err.kind = ErrDiscard)
        /\ (cap'.phase = "returned" /\ cap'.depth = 0 /\ cap'.err.kind = ErrDiscard
                /\ cap.phase # "returned") =>
              \/ cap.depth = 0 /\ cap.phase = "prompt" /\ IsSimple(Prop(cap))
              \/ cap.depth = 0 /\ cap.phase = "args"
                    /\ cap.ct.stage \in {"start", "more", "againmore"}
              \/ cap.depth > 0 /\ cap.phase = "returned"
                    /\ cap.parent.ct.stage \in {"struct", "array"}
        /\ (cap'.depth = 0
                /\ cap'.hist.discardAt \in {"start", "more", "againmore", "struct", "array"}) =>
              cap'.phase = "returned" /\ cap'.err.kind = ErrDiscard
        /\ (cap.depth = 0 /\ Prompting /\ cap' = PromptRead(cap, DiscardPrompt \o <<"\n">>)) =>
              cap'.phase = "returned" /\ cap'.err.kind = ErrDiscard
      ]_vars

\* a map entry was discarded at the prompt of its value and capture returned
\* no error
C14_Witness ==
    /\ TopReturned /\ cap.err = NoError
    /\ cap.hist.discardAt = "value"
    /\ \E k \in DOMAIN cap.props : IsMap(cap.props[k])

\* C17: an optional nested record field that is unset before capture remains
\* unset after capture unless an argument or a prompt answer set at least one
\* nested field; values that come only from defaults or environment variables
\* do not cause it to be set.
C17_OptionalRecordStaysUnset ==
    TopReturned =>
        \A k \in DOMAIN cap.props :
            (IsStruct(cap.props[k]) /\ IsOptional(cap.props[k]) /\ cap.values0[k].nil
                /\ ~cap.values[k].nil)
                => cap.hist.subflags \cap {FlagArgs, FlagPrompt} # {}

\* a nested field of an optional record was loaded from the environment or
\* its default, and the record is left unset
C17_Witness ==
    /\ TopReturned /\ cap.err = NoError /\ cap.round = 1
    /\ \E k \in DOMAIN cap.props :
          /\ IsStruct(cap.props[k]) /\ IsOptional(cap.props[k])
          /\ cap.values[k].nil
          /\ cap.hist.subflags = {FlagEnv}


----------------------------------------------------------------------------
(* Properties of the verification of a prompt                              *)

\* Options.Prompt is waiting for the line that verifies the input of the attempt
Verifying == Prompting /\ cap.pr.wait = "verify"

\* C21: with verification requested, an attempt is accepted only if one
\* further read returns exactly the same raw input as the value input; a
\* mismatch counts as invalid-verify and retries the whole attempt (the value
\* prompt, then the verify prompt) while a try is left, and a value is never
\* returned from a prompt whose last verify read differed.
C21_VerifyMustMatch ==
    [][ /\ (Prompting /\ Prop(cap).PromptVerify /\ ~Verifying) =>
              /\ cap'.values = cap.values /\ cap'.flags = cap.flags
              /\ (cap'.phase = "prompt" /\ cap'.pr.wait = "verify") =>
                    \E raw \in cap.answers :
                        /\ cap'.pr.input = PromptOnce(raw).input
                        /\ PromptOnce(raw).err = ErrNone
        /\ (cap'.phase = "prompt" /\ cap'.pr.wait = "verify") =>
              Prompting /\ Prop(cap).PromptVerify /\ ~Verifying
        /\ Verifying =>
              LET read == cap'.hist.verifyRead
              IN  IF EqualFold(read, QuitPrompt) \/ EqualFold(read, DiscardPrompt)
                  THEN /\ cap'.phase = "returned"
                       /\ cap'.err.kind \in {ErrQuit, ErrDiscard}
                       /\ cap'.values = cap.values /\ cap'.flags = cap.flags
                  ELSE IF read = cap.pr.input
                  THEN /\ cap'.phase = "validate" /\ cap'.pr = PrIdle
                       /\ cap'.values[cap.i] = cap.pr.value
                       /\ FlagPrompt \in cap'.flags[cap.i]
                  ELSE /\ cap'.values = cap.values /\ cap'.flags = cap.flags
                       /\ \/ /\ cap'.phase = "prompt" /\ cap'.pr.wait = "value"
                             /\ cap'.pr.i = cap.pr.i + 1
                             /\ cap'.pr.InvalidVerify = cap.pr.InvalidVerify + 1
                          \/ /\ cap.pr.i = cap.pr.tries
                             /\ cap'.phase = "returned"
                             /\ cap'.err = Error(ErrVerifyFailed)
      ]_vars

\* the first attempt's verification differed, the second attempt's value was
\* chosen by name and its verification has to repeat the name, not the number
C21_Witness ==
    /\ Verifying
    /\ cap.pr.InvalidVerify = 1 /\ cap.pr.i = 1
    /\ cap.pr.input = <<"n">> /\ cap.pr.value = IntValue(1)


\* the number of elements of a list, or of entries of a map
Length(prop, v) == IF v.nil THEN 0 ELSE IF IsMap(prop) THEN Len(v.keys) ELSE Len(v.items)

\* C22: capturing elements for a list or map ends as soon as its length meets
\* the declared max, so a container whose length is at most max before capture
\* never holds more than max elements after capture.
C22_NeverMoreThanMax ==
    TopReturned =>
        \A k \in DOMAIN cap.props :
            (/\ IsSlice(cap.props[k]) \/ IsMap(cap.props[k])
             /\ cap.props[k].Max.set
             /\ Length(cap.props[k], cap.values0[k]) <= cap.props[k].Max.v)
                => Length(cap.props[k], cap.values[k]) <= cap.props[k].Max.v


\* the capture whose container code acts in the step: the caller of the
\* sub-instance that returned, else the capture itself
ContainerBefore ==
    IF cap.phase = "returned" /\ cap.depth > 0 THEN cap.parent ELSE cap

\* the container code of a list or map with a min that max does not undercut
\* is capturing elements, with prompting on
PromptingForMin ==
    /\ ContainerBefore.phase = "args"
    /\ ContainerBefore.ct.stage \in {"element", "key", "value", "more"}
    /\ cap.depth = 0 \/ cap.phase = "returned"
    /\ LET prop == Prop(ContainerBefore)
       IN  /\ IsSlice(prop) \/ IsMap(prop)
           /\ prop.Min.set
           /\ ~prop.Max.set \/ prop.Max.v >= prop.Min.v
    /\ OptsCanPrompt(ContainerBefore)

\* C23: while interactively prompting for a list or map with min = m (and max
\* absent or at least m), the continue question is never asked and element
\* capture never stops while the container holds fewer than m elements, unless
\* the start question is declined, quit is entered or an error occurs.
C23_MinBlocksEarlyStop ==
    [][ PromptingForMin =>
            LET prop == Prop(ContainerBefore)
                k    == ContainerBefore.i
            IN  /\ (cap'.depth = ContainerBefore.depth /\ cap'.phase = "args"
                        /\ cap'.ct.stage = "more") =>
                      Len(cap'.ct.items) >= prop.Min.v
                /\ (cap'.depth = ContainerBefore.depth /\ cap'.phase # "args"
                        /\ cap'.err = NoError) =>
                      Length(prop, cap'.values[k]) >= prop.Min.v
      ]_vars

\* with prompting on, a map with min:"2" holds one entry and the key of the
\* next entry is being captured: no continue question came in between
C23_Witness ==
    /\ cap.depth = 1 /\ OptsCanPrompt(cap)
    /\ cap.parent.ct.stage = "key"
    /\ Len(cap.parent.ct.keys) = 1
    /\ IsMap(Prop(cap.parent))
    /\ Prop(cap.parent).Min.set /\ Prop(cap.parent).Min.v = 2
    /\ cap.phase = "prompt" /\ cap.pr.wait = "value"


\* the start prompt-option of the property is given with no value
StartWithNoValue(c) ==
    /\ kStart \in PromptOptionKeys(c.fields[c.i])
    /\ Prop(c).PromptStart = <<>>

\* C24: when the start prompt-option of a complex field is given with no
\* value, capture does not ask the user a start question for that field and
\* proceeds into the container as if the answer were yes.
C24_EmptyStartIsNotAsked ==
    (cap.depth = 0 /\ cap.phase = "args" /\ cap.ct.stage = "start")
        => ~StartWithNoValue(cap)


----------------------------------------------------------------------------
(* Properties of the argument stage of a scalar                            *)

\* the value the arguments hold for the property Capture is at
ArgGiven == GetArg(Prop(cap).Arg, <<>>, cap.args, cap.argPrefix, IsBool(Prop(cap)))

\* the error of converting that value through the choices and to the type
ArgError == PropSet(Prop(cap), Value(cap), Flags(cap), ArgGiven.value, FlagArgs).err

\* the argument stage of a scalar is about to read a value that does not convert
ArgDoesNotConvert ==
    /\ cap.phase = "args"
    /\ IsSimple(Prop(cap)) /\ CanFromArgs(Prop(cap))
    /\ ArgGiven.value # <<>>
    /\ ArgError # ErrNone

\* C25: if a scalar's argument value cannot be converted through the choice
\* table or parsed to the field's type, capture returns that error
\* immediately: the field is not prompted for, the argument stage is not
\* retried, and no later property is processed, even when prompting is enabled.
C25_ArgErrorEndsCapture ==
    [][ /\ ArgDoesNotConvert =>
              /\ cap'.phase = "returned" /\ cap'.err = Error(ArgError)
              /\ cap'.i = cap.i
              /\ cap'.prompted = cap.prompted
              /\ cap'.values = cap.values /\ cap'.flags = cap.flags
              /\ cap'.trace = Append(cap.trace, <<"args", cap.i>>)
        /\ (cap.phase = "returned" /\ cap.err # NoError) => FALSE
      ]_vars

\* with prompting enabled, the first of two properties was given an argument
\* that does not convert, and capture returned the error from its argument stage
C25_Witness ==
    /\ Returned /\ OptsCanPrompt(cap)
    /\ Len(cap.props) = 2
    /\ cap.err.kind \in {ErrParse, ErrInvalidConversion}
    /\ cap.trace = <<<<"load", 1>>, <<"args", 1>>>>
    /\ cap.prompted = {}


----------------------------------------------------------------------------
(* Properties of values with custom argument or prompt handling            *)

\* C26: a property whose value implements the custom-argument capability
\* (ArgValue) is handled only by its own FromArgs: the engine neither performs
\* its standard argument lookup nor prompts for that value or any of its
\* sub-values, for every value kind.
C26_ArgValueIsNeverPrompted ==
    \A k \in DOMAIN cap.props :
        HasArgValue(cap.props[k]) =>
            /\ k \notin cap.prompted
            /\ FlagPrompt \notin cap.flags[k]

\* C27: prompting happens only if prompting is enabled: when prompting is
\* disabled, capture never reads user input and never invokes a property's
\* custom prompt capability.
C27_NoPromptWhenDisabled ==
    ~OptsCanPrompt(cap) =>
        /\ ~cap.hist.custom
        /\ cap.prompted = {}
        /\ \A k \in DOMAIN cap.flags : FlagPrompt \notin cap.flags[k]


----------------------------------------------------------------------------
(* Properties of a capture that fails                                      *)

\* the step in which Capture returns an error
CaptureFails == cap.phase # "returned" /\ cap'.phase = "returned" /\ cap'.err # NoError

\* C28: when capture fails at some property, the first error is the one
\* returned and every property processed before it keeps the value capture had
\* already committed to it; nothing is rolled back.
C28_FailureKeepsCommittedValues ==
    [][ /\ \A k \in DOMAIN cap.values :
              k < cap.i => /\ cap'.values[k] = cap.values[k]
                           /\ cap'.flags[k] = cap.flags[k]
        /\ CaptureFails => /\ cap'.values = cap.values
                           /\ cap'.flags = cap.flags
                           /\ cap'.i = cap.i
        /\ (cap.phase = "returned" /\ cap.err # NoError) => FALSE
      ]_vars

\* capture failed at the second property; the first keeps the value its
\* argument gave it
C28_Witness ==
    /\ Returned /\ cap.err # NoError
    /\ cap.i = 2
    /\ FlagArgs \in cap.flags[1]
    /\ cap.values[1] # cap.values0[1]
    /\ <<"args", 2>> \in Range(cap.trace)


----------------------------------------------------------------------------
(* Properties of the re-prompt of list elements                            *)

\* a new element of a list with reprompt is being captured, with prompting on
NewElementRequested ==
    /\ cap.depth > 0 /\ cap.parent.ct.stage = "element"
    /\ Prop(cap.parent).Reprompt /\ OptsCanPrompt(cap)

\* C29: with re-prompt configured and prompting enabled, each pre-existing
\* list element is re-prompted, in original index order, before any new
\* element is requested.
C29_RepromptBeforeNew ==
    NewElementRequested =>
        cap.parent.ct.again =
            [j \in 1..Length(Prop(cap.parent), cap.parent.values0[cap.parent.i]) |-> j]


----------------------------------------------------------------------------
(* Properties of the argument names of nested values                       *)

\* field F of record S holds the value of <prefix>S-F
RecordNames(prop, v) ==
    \A j \in DOMAIN prop.Type.fields :
        LET given == Given(Composed(<<prop.Arg, FieldName(prop.Type.fields[j])>>))
        IN  given # <<>> =>
                ~v.nil /\ v.f[j] = Converted(prop.Type.fields[j].Type, given[1])

\* field F of the i-th record of list L holds the value of <prefix>L-i-F, and
\* the list has an i-th record when the names up to i are given
RecordListNames(prop, v) ==
    LET fields == prop.Type.elem.fields
        name(i, j) == Composed(<<prop.Arg, <<DigitChars[i + 1]>>, FieldName(fields[j])>>)
    IN  /\ \A i \in DOMAIN v.items : \A j \in DOMAIN fields :
              /\ Given(name(i, j)) # <<>>
              /\ v.items[i].f[j] = Converted(fields[j].Type, Given(name(i, j))[1])
        /\ \A i \in 1..MaxItems :
              (\A h \in 1..i : \E j \in DOMAIN fields : Given(name(h, j)) # <<>>)
                  => i <= Len(v.items)

\* the elements of scalar list L are the values of the tokens <prefix>L, in
\* order, up to the element that reaches max (a list with min can hold more)
ScalarListNames(prop, v) ==
    LET given == Given(Composed(<<prop.Arg>>))
        n     == IF prop.Max.set /\ prop.Max.v < Len(given) THEN prop.Max.v ELSE Len(given)
    IN  /\ n <= Len(v.items)
        /\ SubSeq(v.items, 1, n) = [i \in 1..n |-> Converted(prop.Type.elem, given[i])]
        /\ ~prop.Min.set => Len(v.items) = n

\* element i of array A holds the value of <prefix>A-i, or zero without it
ArrayNames(prop, v) ==
    \A i \in DOMAIN v.items :
        LET given == Given(Composed(<<prop.Arg, <<DigitChars[i + 1]>> >>))
        IN  v.items[i] = IF given # <<>> THEN Converted(prop.Type.elem, given[1])
                         ELSE ZeroValue(prop.Type.elem)

\* map M holds the entry of the pair <prefix>M-key, <prefix>M-value
MapNames(prop, v) ==
    LET key   == Given(Composed(<<prop.Arg, <<"k","e","y">> >>))
        value == Given(Composed(<<prop.Arg, <<"v","a","l","u","e">> >>))
    IN  (key # <<>> /\ value # <<>>) =>
            /\ v.keys # <<>>
            /\ v.keys[1] = Converted(prop.Type.key, key[1])
            /\ v.vals[1] = Converted(prop.Type.elem, value[1])
            /\ ~prop.Min.set => Len(v.keys) = 1

----------------------------------------------------------------------------
(* Properties of the fields capture leaves alone                           *)

\* C31: properties of function, channel or opaque-pointer kind are excluded
\* entirely from capture and validation: they are never loaded, read from
\* arguments, prompted or validated, and their declared annotations can never
\* make capture fail.
C31_IgnoredKindsAreExcluded ==
    \A k \in DOMAIN cap.props :
        IsIgnored(cap.props[k]) =>
            /\ cap.values[k] = cap.values0[k]
            /\ cap.flags[k] = {}
            /\ k \notin cap.prompted
            /\ ~(cap.phase = "returned" /\ cap.err # NoError
                    /\ cap.err.prop = cap.props[k].Name)


\* the field is declared with arg:"-"
ArgIsDash(f) == HasTag(f, "arg") /\ f.tags["arg"] = sDash

\* C32: a field declared with arg:"-" does not pull its value from the
\* arguments: for every token list, capture neither changes the field from a
\* token nor removes any token on its behalf.
C32_ArgDashReadsNoToken ==
    (cap.depth = 0 /\ Len(cap.fields) = 1 /\ ArgIsDash(cap.fields[1])) =>
        /\ FlagArgs \notin cap.flags[1]
        /\ cap.args = cap.args0


----------------------------------------------------------------------------
(* Properties of Registry.ExecuteReturn                                    *)

\* the whole-record validation of the command returned an error
ValidatorFailed == cap.viaRegistry /\ cap.err = Error("Validate")

\* C33: if whole-record validation (Validator.Validate) returns an error, the
\* command's Execute is never invoked for that capture.
C33_NoExecuteAfterValidatorError ==
    ValidatorFailed => ~cap.hist.executed

\* ExecuteReturn returned for a command that is Executable and whose Validate
\* returned an error
C33_Witness ==
    /\ ValidatorFailed
    /\ cap.phase = "executed"
    /\ "Executable" \in cap.caps


----------------------------------------------------------------------------
(* Properties of capture without prompting                                 *)

\* C34: with prompting disabled, capture of any record terminates for every
\* finite argument list and every declared min/max, including list and map
\* fields whose min exceeds the number of entries supplied by arguments.
C34_CaptureTerminatesWithoutPrompt ==
    (~OptsCanPrompt(cap)) ~> CaptureOver


\* element i of list property k was in the list before capture, or an
\* argument supplies it
ElementSupplied(k, i) ==
    LET prop == cap.props[k]
        v    == cap.values[k].items[i]
    IN  \/ \E h \in DOMAIN cap.values0[k].items : cap.values0[k].items[h] = v
        \/ /\ TemplateIsSimple(prop.Type.elem)
           /\ \E g \in Range(Given(Composed(<<prop.Arg>>))) :
                 v = Converted(prop.Type.elem, g)
        \/ /\ prop.Type.elem.kind = "struct"
           /\ \E j \in DOMAIN prop.Type.elem.fields :
                 Given(Composed(<<prop.Arg, <<DigitChars[i + 1]>>,
                                  FieldName(prop.Type.elem.fields[j])>>)) # <<>>

\* C35: with prompting disabled, every element of a list after capture was
\* either present before capture or supplied by an argument: no zero-valued
\* filler element is appended to reach min.
C35_NoFillerElements ==
    (TopReturned /\ ~OptsCanPrompt(cap)) =>
        \A k \in DOMAIN cap.props :
            IsSlice(cap.props[k]) =>
                \A i \in DOMAIN cap.values[k].items : ElementSupplied(k, i)


----------------------------------------------------------------------------
(* Properties of the arguments of nested values                            *)

\* the token is a top-level argument name: it starts with the root argument
\* prefix and names no part of the property whose parts are captured
TopLevelName(tok) ==
    /\ HasPrefix(ToLower(tok), pDashes)
    /\ ~HasPrefix(ToLower(tok), pDashes \o ToLower(Prop(cap.parent).Arg))

\* a field of a nested record or a container element is being captured
CapturingNested == cap.depth > 0

\* C36: while capturing a field of a nested record or container element, a
\* following token that is a top-level argument name (it starts with the root
\* argument prefix) is never consumed as that nested field's value; it stays in
\* the token list for its own property.
C36_TopLevelNameIsNotAValue ==
    CapturingNested =>
        \A i \in DOMAIN cap.args0 :
            TopLevelName(cap.args0[i]) =>
                /\ \E j \in DOMAIN cap.args : cap.args[j] = cap.args0[i]
                /\ \A k \in DOMAIN cap.values : cap.values[k].s # cap.args0[i]


\* C37: declaring prompt:"-" on a list or map field only suppresses prompting:
\* elements supplied for that field as arguments are still captured into it.
C37_HiddenListTakesArguments ==
    (TopReturned /\ cap.err = NoError) =>
        \A k \in DOMAIN cap.props :
            (IsSlice(cap.props[k]) /\ cap.props[k].HidePrompt) =>
                \A g \in Range(Given(Composed(<<cap.props[k].Arg>>))) :
                    \E i \in DOMAIN cap.values[k].items :
                        cap.values[k].items[i] = Converted(cap.props[k].Type.elem, g)


----------------------------------------------------------------------------
(* Properties of the options after the capture of a container              *)

\* FromArgs of a record, list, array or map field of the record returned
ContainerReturned ==
    /\ cap.depth = 0
    /\ \E k \in DOMAIN cap.props :
          IsContainer(cap.props[k]) /\ <<"args", k>> \in Range(cap.trace)

\* C38: after the capture of any nested record, list, array or map field
\* returns, with or without an error, the options' argument prefix and prompt
\* context equal their values from before that field's capture, so every
\* later sibling field is matched under the parent's prefix.
C38_OptionsRestoredAfterContainer ==
    ContainerReturned =>
        /\ cap.argPrefix = cap.hist.before.argPrefix
        /\ cap.ctx = cap.hist.before.ctx
        /\ cap.argPrefix = pDashes

\* a list returned an error after an element was captured under its prefix,
\* and the options are as before
C38_Witness ==
    /\ ContainerReturned
    /\ IsSlice(cap.props[1])
    /\ cap.err # NoError
    /\ cap.hist.subflags # {}
    /\ cap.argPrefix = pDashes /\ cap.ctx = NoContext

----------------------------------------------------------------------------
(* Properties of Registry.Peek                                             *)

\* C39: Registry.Peek leaves the argument list of the options unchanged, the
\* same tokens in the same order, also when the arguments hold the help flag,
\* so that a Capture called after Peek is given the original arguments
C39_PeekLeavesArgs ==
    cap.hist.peeked => /\ cap.args0 = cap.hist.given
                       /\ (cap.phase = "registry" => cap.args = cap.hist.given)

----------------------------------------------------------------------------
(* Properties of Registry.EntryForDeep                                     *)

\* C40: resolving a path of command names never reads past the end of the
\* names: when the names end at an entry that has sub commands, the lookup
\* returns instead of crashing
C40_LookupStaysWithinNames ==
    /\ cap.hist.names # <<>> => cap.hist.read < Len(cap.hist.names)
    /\ cap.viaRegistry /\ cap.props = <<>> => cap.phase # "panic"

============================================================================
